---- MODULE Spec2Model ----
(***************************************************************************)
(* Dispatch and lifecycle engine of Uber_rp: the PostgreSQL tables users   *)
(* (ride requests) and drivers, the matching worker                        *)
(* (matchmaking.py, process_matching_queue / find_best_driver) and the     *)
(* completion worker (ridecompletion.py, simulate_ride_completion).        *)
(*                                                                         *)
(* Each worker owns one connection.  A transaction begins with the first   *)
(* statement after a commit or rollback; NOW() is the start time of the    *)
(* transaction; UPDATEs are invisible to other connections until COMMIT;   *)
(* SELECT ... FOR UPDATE SKIP LOCKED takes row locks one row at a time,    *)
(* skips rows locked by others and re-checks the WHERE clause on the       *)
(* newest committed version of a row (READ COMMITTED).                     *)
(***************************************************************************)
EXTENDS Integers, Sequences, FiniteSets, TLC

VARIABLES
    drivers,    \* table drivers: id -> row
    users,      \* table users: sequence of rows, id = index (SERIAL)
    dlock,      \* row locks of drivers: id -> owning worker or Free
    ulock,      \* row locks of users: id -> owning worker or Free
    now,        \* wall clock, in seconds
    mw,         \* matching workers: worker -> locals of process_matching_queue
    cw          \* completion workers: worker -> locals of simulate_ride_completion

vars == <<drivers, users, dlock, ulock, now, mw, cw>>

---------------------------------------------------------------------------
(* Bounds of the model. *)
NumDrivers == 2
MaxRequests == 2
NumMatchers == 2
NumCompleters == 2
MaxTime == 5          \* last clock value of Spec and SpecDuel
MaxRideTime == 13     \* last clock value of SpecRide
MaxFetched == 3       \* longest fetched driver list of SpecBest
MaxLiveTime == 3      \* last clock value of SpecLive

---------------------------------------------------------------------------
(* Values. *)
NULL == 0            \* SQL NULL / Python None for ids and timestamps
Free == 0            \* no worker holds the row lock
Inf == -1            \* float('inf')
None == "<None>"     \* Python None where a string is expected

DriverPks == 1..NumDrivers
RequestIds == 1..MaxRequests
Matchers == 1..NumMatchers
Completers == (NumMatchers + 1)..(NumMatchers + NumCompleters)

(* A location string is a sequence of words and separator characters. *)
DowntownCore == <<"Downtown", " ", "Core">>
CentralStation == <<"Central", " ", "Station">>
UniversityArea == <<"University", " ", "Area">>
TheSuburbs == <<"The", " ", "Suburbs">>
AirportTerminal == <<"Airport", " ", "Terminal">>
Atlantis == <<"Atlantis">>

(* matchmaking.py, class Location(Enum): key -> value *)
Location ==
    (<<"Downtown", "_", "Core">> :> 10) @@
    (<<"Central", "_", "Station">> :> 20) @@
    (<<"University", "_", "Area">> :> 30) @@
    (<<"The", "_", "Suburbs">> :> 40) @@
    (<<"Airport", "_", "Terminal">> :> 50)

(* Variant: the enumeration numbered 1, 2, 3, ... *)
Location_ridecompletion_Auto ==
    (<<"Downtown", "_", "Core">> :> 1) @@
    (<<"Central", "_", "Station">> :> 2) @@
    (<<"University", "_", "Area">> :> 3) @@
    (<<"The", "_", "Suburbs">> :> 4) @@
    (<<"Airport", "_", "Terminal">> :> 5)

(* ridecompletion.py, class Location(Enum): key -> value *)
Location_ridecompletion ==
    (<<"Downtown", "_", "Core">> :> 10) @@
    (<<"Central", "_", "Station">> :> 20) @@
    (<<"University", "_", "Area">> :> 30) @@
    (<<"The", "_", "Suburbs">> :> 40) @@
    (<<"Airport", "_", "Terminal">> :> 50)

(* str.replace(" ", "_") *)
Replace(s) == [i \in DOMAIN s |-> IF s[i] = " " THEN "_" ELSE s[i]]

(* Variant: the difference without the absolute value. *)
Abs_Signed(x) == x

Abs(x) == IF x < 0 THEN -x ELSE x

(* Variant: the comparison as "<=". *)
Less_OrEqual(a, b) == IF b = Inf THEN TRUE ELSE IF a = Inf THEN FALSE ELSE a <= b

(* Variant: the comparison turned round. *)
Less_Reversed(a, b) == IF b = Inf THEN FALSE ELSE IF a = Inf THEN TRUE ELSE a > b

(* a < b on Python floats, where either side can be float('inf') *)
Less(a, b) == IF a = Inf THEN FALSE ELSE IF b = Inf THEN TRUE ELSE a < b

(* bool(x) of a string or None *)
Truthy(x) == x /= None /\ x /= ""

(* Variant: an unknown location scored as distance 0. *)
calculate_proximity_score_UnknownIsNear(location_a, location_b) ==
    IF Replace(location_a) \in DOMAIN Location /\ Replace(location_b) \in DOMAIN Location
    THEN Abs(Location[Replace(location_a)] - Location[Replace(location_b)])
    ELSE 0

calculate_proximity_score(location_a, location_b) ==
    IF Replace(location_a) \in DOMAIN Location /\ Replace(location_b) \in DOMAIN Location
    THEN Abs(Location[Replace(location_a)] - Location[Replace(location_b)])
    ELSE Inf

MIN_DURATION == 2
FALLBACK_DURATION == 10

(* Variant: the duration without the distance. *)
calculate_ride_duration_NoDistance(source, destination) == MIN_DURATION

(* Variant: an unknown location is taken as no distance. *)
calculate_ride_duration_ShortFallback(source, destination) ==
    IF /\ Replace(source) \in DOMAIN Location_ridecompletion
       /\ Replace(destination) \in DOMAIN Location_ridecompletion
    THEN Abs(Location_ridecompletion[Replace(source)]
             - Location_ridecompletion[Replace(destination)]) + MIN_DURATION
    ELSE MIN_DURATION

calculate_ride_duration(source, destination) ==
    IF /\ Replace(source) \in DOMAIN Location_ridecompletion
       /\ Replace(destination) \in DOMAIN Location_ridecompletion
    THEN Abs(Location_ridecompletion[Replace(source)]
             - Location_ridecompletion[Replace(destination)]) + MIN_DURATION
    ELSE FALLBACK_DURATION

(* The scan of find_best_driver over the fetched rows, in fetch order. *)
NoMatch == [driver_pk_id |-> NULL, driver_id |-> None, min_distance |-> Inf]

RECURSIVE ScanDrivers(_, _, _)
ScanDrivers(user_source_location, available_drivers, best_match) ==
    IF available_drivers = <<>> THEN best_match
    ELSE LET driver == Head(available_drivers)
             distance == calculate_proximity_score(user_source_location,
                                                   driver.current_location)
         IN ScanDrivers(user_source_location, Tail(available_drivers),
                IF Less(distance, best_match.min_distance)
                THEN [driver_pk_id |-> driver.id, driver_id |-> driver.driver_id,
                      min_distance |-> distance]
                ELSE best_match)

(* find_best_driver after the fetch: what it returns for the fetched rows. *)
find_best_driver(user_source_location, available_drivers) ==
    IF available_drivers = <<>> THEN NoMatch
    ELSE LET best_match == ScanDrivers(user_source_location, available_drivers, NoMatch)
         IN IF best_match.driver_pk_id /= NULL THEN best_match ELSE NoMatch

---------------------------------------------------------------------------
(* Inputs the external producers send (user_producer.py, driver_simulator.py). *)
DriverLocations == {DowntownCore, CentralStation}
RideInputs == {<<CentralStation, CentralStation>>}
TimedRideInputs == {<<CentralStation, CentralStation>>, <<CentralStation, DowntownCore>>}
BestInputs ==
    {DowntownCore, CentralStation, UniversityArea, TheSuburbs, AirportTerminal,
     Replace(DowntownCore), Atlantis}
InitialDriverStatuses == {"accepting", "off"}

(* driver_id of the driver row with primary key d: "DRV-" + hex digits *)
DriverIdOf(d) == <<"DRV-", d>>

---------------------------------------------------------------------------
(* Locals of the two worker loops between iterations. *)
MatcherIdle ==
    [pc |-> "poll", txn_start |-> NULL, request_id |-> NULL,
     source_location |-> <<>>, todo |-> {}, available_drivers |-> <<>>,
     driver_pk_id |-> NULL, driver_id |-> None]

CompleterIdle ==
    [pc |-> "poll", wake |-> 0, txn_start |-> NULL, request_id |-> NULL,
     driver_pk_id |-> NULL, ride_duration |-> 0]

NewRequest(source, destination) ==
    [source_location |-> source, destination_location |-> destination,
     request_time |-> now, request_status |-> "pending", match_time |-> NULL,
     completion_time |-> NULL, driver_fk_id |-> NULL]

Init ==
    /\ drivers \in [DriverPks -> [status : InitialDriverStatuses,
                                  current_location : DriverLocations]]
    /\ users = <<>>
    /\ dlock = [d \in DriverPks |-> Free]
    /\ ulock = [r \in RequestIds |-> Free]
    /\ now = 1
    /\ mw = [w \in Matchers |-> MatcherIdle]
    /\ cw = [w \in Completers |-> CompleterIdle]

(* Variant: a transaction end that keeps the locks on users rows. *)
ReleaseUsers_Keep(w) == ulock

(* Variant: a transaction end that keeps the locks on drivers rows. *)
ReleaseDrivers_Keep(w) == dlock

(* Variant: a transaction end that releases every row lock on drivers. *)
ReleaseDrivers_All(w) == [d \in DriverPks |-> Free]

(* Row locks of worker w released at COMMIT or ROLLBACK. *)
ReleaseDrivers(w) == [d \in DriverPks |-> IF dlock[d] = w THEN Free ELSE dlock[d]]
ReleaseUsers(w) == [r \in RequestIds |-> IF ulock[r] = w THEN Free ELSE ulock[r]]

---------------------------------------------------------------------------
(* POST /api/request-ride: INSERT INTO users ... 'pending' and commit. *)
handle_ride_request(source, destination) ==
    /\ Len(users) < MaxRequests
    /\ users' = Append(users, NewRequest(source, destination))
    /\ UNCHANGED <<drivers, dlock, ulock, now, mw, cw>>

(* Passage of time. *)
Tick ==
    /\ now < MaxTime
    /\ now' = now + 1
    /\ UNCHANGED <<drivers, users, dlock, ulock, mw, cw>>

---------------------------------------------------------------------------
(* process_matching_queue *)

(* Variant: the same SELECT without FOR UPDATE SKIP LOCKED. *)
ClaimablePending_NoRowLock ==
    {r \in 1..Len(users) : users[r].request_status = "pending"}

(* WHERE request_status = 'pending' ... FOR UPDATE SKIP LOCKED *)
ClaimablePending ==
    {r \in 1..Len(users) : users[r].request_status = "pending" /\ ulock[r] = Free}

(* Variant: the same SELECT with ORDER BY request_time DESC. *)
OldestPending_Newest ==
    {r \in ClaimablePending :
        \A q \in ClaimablePending : users[r].request_time >= users[q].request_time}

(* Variant: the same SELECT without ORDER BY request_time. *)
OldestPending_Any == ClaimablePending

(* ORDER BY request_time ASC LIMIT 1 (equal times: either row) *)
OldestPending ==
    {r \in ClaimablePending :
        \A q \in ClaimablePending : users[r].request_time <= users[q].request_time}

(* Step 1: fetch and lock the oldest pending request; with none, time.sleep(1)
   and poll again (the sleep holds no row lock and changes no row). *)
M_ClaimRequest(w) ==
    /\ mw[w].pc = "poll"
    /\ IF ClaimablePending = {}
       THEN UNCHANGED <<mw, ulock>>
       ELSE \E r \in OldestPending :
            /\ ulock' = [ulock EXCEPT ![r] = w]
            /\ mw' = [mw EXCEPT ![w] = [MatcherIdle EXCEPT
                         !.pc = "find", !.txn_start = now, !.request_id = r,
                         !.source_location = users[r].source_location]]
    /\ UNCHANGED <<drivers, users, dlock, now, cw>>

(* Variant: the SELECT with another status literal. *)
AcceptingSnapshot_Off == {d \in DriverPks : drivers[d].status = "off"}

(* find_best_driver, the SELECT: the statement's snapshot of accepting drivers. *)
AcceptingSnapshot == {d \in DriverPks : drivers[d].status = "accepting"}

M_SelectDrivers(w) ==
    /\ mw[w].pc = "find"
    /\ mw' = [mw EXCEPT ![w].pc = "scan", ![w].todo = AcceptingSnapshot]
    /\ UNCHANGED <<drivers, users, dlock, ulock, now, cw>>

(* FOR UPDATE SKIP LOCKED on one row of the snapshot: locked unless another
   transaction holds it or its newest version is no longer 'accepting'. *)
DriverLockable_NoRowLock(d) == drivers[d].status = "accepting"
DriverLockable_NoRecheck(d) == dlock[d] = Free
DriverLockable_StaleSnapshot(d) == dlock[d] = Free /\ drivers[d].status /= "off"

DriverLockable(d) == dlock[d] = Free /\ drivers[d].status = "accepting"

FetchedRow(d) ==
    [id |-> d, driver_id |-> DriverIdOf(d), current_location |-> drivers[d].current_location]

M_LockDriver(w, d) ==
    /\ mw[w].pc = "scan"
    /\ d \in mw[w].todo
    /\ IF DriverLockable(d)
       THEN /\ dlock' = [dlock EXCEPT ![d] = w]
            /\ mw' = [mw EXCEPT ![w].todo = @ \ {d},
                                ![w].available_drivers = Append(@, FetchedRow(d))]
       ELSE /\ mw' = [mw EXCEPT ![w].todo = @ \ {d}]
            /\ UNCHANGED dlock
    /\ UNCHANGED <<drivers, users, ulock, now, cw>>

(* The result of find_best_driver once every row is fetched. *)
BestOf(w) == find_best_driver(mw[w].source_location, mw[w].available_drivers)

(* Step 2, "if driver_id:" true: A. UPDATE drivers SET status = 'in a drive'. *)
M_UpdateDriver(w) ==
    /\ mw[w].pc = "scan"
    /\ mw[w].todo = {}
    /\ Truthy(BestOf(w).driver_id)
    /\ mw' = [mw EXCEPT ![w].pc = "update_request",
                        ![w].driver_pk_id = BestOf(w).driver_pk_id,
                        ![w].driver_id = BestOf(w).driver_id]
    /\ UNCHANGED <<drivers, users, dlock, ulock, now, cw>>

(* B. UPDATE users SET request_status = 'matched', driver_fk_id, match_time. *)
M_UpdateRequest(w) ==
    /\ mw[w].pc = "update_request"
    /\ mw' = [mw EXCEPT ![w].pc = "commit"]
    /\ UNCHANGED <<drivers, users, dlock, ulock, now, cw>>

(* Variants: a match whose driver UPDATE is lost; a match that stores no
   match_time. *)
MatchedDrivers_NoUpdate(w) == drivers

MatchedUsers_NoMatchTime(w) ==
    [users EXCEPT ![mw[w].request_id] =
        [@ EXCEPT !.request_status = "matched",
                  !.driver_fk_id = mw[w].driver_pk_id]]

MatchedUsers_NoDriverRef(w) ==
    [users EXCEPT ![mw[w].request_id] =
        [@ EXCEPT !.request_status = "matched",
                  !.match_time = mw[w].txn_start]]

(* The rows as COMMIT of a match makes them visible. *)
MatchedDrivers(w) ==
    [drivers EXCEPT ![mw[w].driver_pk_id].status = "in a drive"]

MatchedUsers(w) ==
    [users EXCEPT ![mw[w].request_id] =
        [@ EXCEPT !.request_status = "matched",
                  !.driver_fk_id = mw[w].driver_pk_id,
                  !.match_time = mw[w].txn_start]]

M_Commit(w) ==
    /\ mw[w].pc = "commit"
    /\ drivers' = MatchedDrivers(w)
    /\ users' = MatchedUsers(w)
    /\ dlock' = ReleaseDrivers(w)
    /\ ulock' = ReleaseUsers(w)
    /\ mw' = [mw EXCEPT ![w] = MatcherIdle]
    /\ UNCHANGED <<now, cw>>

(* "else": no driver; conn.rollback(), then time.sleep(2) and poll again. *)
M_NoDriver(w) ==
    /\ mw[w].pc = "scan"
    /\ mw[w].todo = {}
    /\ ~Truthy(BestOf(w).driver_id)
    /\ dlock' = ReleaseDrivers(w)
    /\ ulock' = ReleaseUsers(w)
    /\ mw' = [mw EXCEPT ![w] = MatcherIdle]
    /\ UNCHANGED <<drivers, users, now, cw>>

---------------------------------------------------------------------------
(* simulate_ride_completion *)

(* Variant: the same SELECT without FOR UPDATE SKIP LOCKED. *)
ClaimableMatched_NoRowLock ==
    {r \in 1..Len(users) :
        /\ users[r].request_status = "matched"
        /\ users[r].driver_fk_id \in DriverPks}

(* Variant: the same SELECT without WHERE u.request_status = 'matched'. *)
ClaimableMatched_AnyStatus ==
    {r \in 1..Len(users) :
        /\ users[r].driver_fk_id \in DriverPks
        /\ ulock[r] = Free
        /\ dlock[users[r].driver_fk_id] = Free}

(* users u JOIN drivers d ... WHERE u.request_status = 'matched'
   FOR UPDATE SKIP LOCKED: both joined rows must be lockable. *)
ClaimableMatched ==
    {r \in 1..Len(users) :
        /\ users[r].request_status = "matched"
        /\ users[r].driver_fk_id \in DriverPks
        /\ ulock[r] = Free
        /\ dlock[users[r].driver_fk_id] = Free}

(* Variant: the same SELECT without ORDER BY u.match_time. *)
OldestMatched_Any == ClaimableMatched

(* ORDER BY u.match_time ASC LIMIT 1 *)
OldestMatched ==
    {r \in ClaimableMatched :
        \A q \in ClaimableMatched : users[r].match_time <= users[q].match_time}

(* Steps 1-2: fetch and lock the oldest matched ride, compute the duration and
   start time.sleep(ride_duration); with none, time.sleep(5) and poll again. *)
C_ClaimRide(w) ==
    /\ cw[w].pc = "poll"
    /\ IF ClaimableMatched = {}
       THEN UNCHANGED <<cw, dlock, ulock>>
       ELSE \E r \in OldestMatched :
            LET ride_duration == calculate_ride_duration(users[r].source_location,
                                                         users[r].destination_location)
            IN /\ ulock' = [ulock EXCEPT ![r] = w]
               /\ dlock' = [dlock EXCEPT ![users[r].driver_fk_id] = w]
               /\ cw' = [cw EXCEPT ![w] =
                            [pc |-> "ride", wake |-> now + ride_duration,
                             txn_start |-> now, request_id |-> r,
                             driver_pk_id |-> users[r].driver_fk_id,
                             ride_duration |-> ride_duration]]
    /\ UNCHANGED <<drivers, users, now, mw>>

(* Step 3 after the sleep: UPDATE users SET request_status = 'completed'. *)
C_UpdateRequest(w) ==
    /\ cw[w].pc = "ride"
    /\ now >= cw[w].wake
    /\ cw' = [cw EXCEPT ![w].pc = "update_driver"]
    /\ UNCHANGED <<drivers, users, dlock, ulock, now, mw>>

(* Step 4: UPDATE drivers SET status = 'accepting'. *)
C_UpdateDriver(w) ==
    /\ cw[w].pc = "update_driver"
    /\ cw' = [cw EXCEPT ![w].pc = "commit"]
    /\ UNCHANGED <<drivers, users, dlock, ulock, now, mw>>

(* Variants: a completion whose request UPDATE is lost; a completion that
   leaves the driver on the ride. *)
CompletedUsers_NoUpdate(w) == users

CompletedDrivers_NoRelease(w) == drivers

(* Variant: the released driver is moved to the destination of its ride. *)
CompletedDrivers_Moved(w) ==
    [drivers EXCEPT ![cw[w].driver_pk_id] =
        [status |-> "accepting",
         current_location |-> users[cw[w].request_id].destination_location]]

(* The rows as COMMIT of a completion makes them visible. *)
CompletedUsers(w) ==
    [users EXCEPT ![cw[w].request_id] =
        [@ EXCEPT !.request_status = "completed", !.completion_time = cw[w].txn_start]]

CompletedDrivers(w) ==
    [drivers EXCEPT ![cw[w].driver_pk_id].status = "accepting"]

C_Commit(w) ==
    /\ cw[w].pc = "commit"
    /\ users' = CompletedUsers(w)
    /\ drivers' = CompletedDrivers(w)
    /\ dlock' = ReleaseDrivers(w)
    /\ ulock' = ReleaseUsers(w)
    /\ cw' = [cw EXCEPT ![w] = CompleterIdle]
    /\ UNCHANGED <<now, mw>>

---------------------------------------------------------------------------
Next ==
    \/ \E io \in RideInputs : handle_ride_request(io[1], io[2])
    \/ Tick
    \/ \E w \in Matchers : M_ClaimRequest(w)
    \/ \E w \in Matchers : M_SelectDrivers(w)
    \/ \E w \in Matchers : \E d \in DriverPks : M_LockDriver(w, d)
    \/ \E w \in Matchers : M_UpdateDriver(w)
    \/ \E w \in Matchers : M_UpdateRequest(w)
    \/ \E w \in Matchers : M_Commit(w)
    \/ \E w \in Matchers : M_NoDriver(w)
    \/ \E w \in Completers : C_ClaimRide(w)
    \/ \E w \in Completers : C_UpdateRequest(w)
    \/ \E w \in Completers : C_UpdateDriver(w)
    \/ \E w \in Completers : C_Commit(w)

Spec == Init /\ [][Next]_vars

---------------------------------------------------------------------------
(* The timed ride: one matching worker and one completion worker over a clock
   long enough for a ride between two zones. *)
InitRide ==
    /\ Init
    /\ \A d \in DriverPks :
          drivers[d] = [status |-> IF d = 1 THEN "accepting" ELSE "off",
                        current_location |-> CentralStation]

TickRide ==
    /\ now < MaxRideTime
    /\ now' = now + 1
    /\ UNCHANGED <<drivers, users, dlock, ulock, mw, cw>>

FirstMatcher == 1
FirstCompleter == NumMatchers + 1

NextRide ==
    \/ \E io \in TimedRideInputs : handle_ride_request(io[1], io[2])
    \/ TickRide
    \/ M_ClaimRequest(FirstMatcher)
    \/ M_SelectDrivers(FirstMatcher)
    \/ \E d \in DriverPks : M_LockDriver(FirstMatcher, d)
    \/ M_UpdateDriver(FirstMatcher)
    \/ M_UpdateRequest(FirstMatcher)
    \/ M_Commit(FirstMatcher)
    \/ M_NoDriver(FirstMatcher)
    \/ C_ClaimRide(FirstCompleter)
    \/ C_UpdateRequest(FirstCompleter)
    \/ C_UpdateDriver(FirstCompleter)
    \/ C_Commit(FirstCompleter)

SpecRide == InitRide /\ [][NextRide]_vars

----------------------------------------------------------------------------
(* The ride to an unknown place: the timed ride where a request may name a
   destination that is not a zone. *)
FallbackRideInputs == {<<CentralStation, CentralStation>>, <<CentralStation, Atlantis>>}

NextFallback ==
    \/ \E io \in FallbackRideInputs : handle_ride_request(io[1], io[2])
    \/ TickRide
    \/ M_ClaimRequest(FirstMatcher)
    \/ M_SelectDrivers(FirstMatcher)
    \/ \E d \in DriverPks : M_LockDriver(FirstMatcher, d)
    \/ M_UpdateDriver(FirstMatcher)
    \/ M_UpdateRequest(FirstMatcher)
    \/ M_Commit(FirstMatcher)
    \/ M_NoDriver(FirstMatcher)
    \/ C_ClaimRide(FirstCompleter)
    \/ C_UpdateRequest(FirstCompleter)
    \/ C_UpdateDriver(FirstCompleter)
    \/ C_Commit(FirstCompleter)

SpecFallback == InitRide /\ [][NextFallback]_vars

---------------------------------------------------------------------------
(* Store errors.  In both workers "try:" encloses "while True:", so an exception
   raised by any statement of an iteration leaves the loop: "except Exception"
   rolls the transaction back, "finally" closes the connection, and the
   function returns.  The locals keep the ids the iteration had reached. *)
MatcherClosed(w) ==
    [MatcherIdle EXCEPT !.pc = "closed", !.request_id = mw[w].request_id,
                        !.driver_pk_id = mw[w].driver_pk_id]

CompleterClosed(w) ==
    [CompleterIdle EXCEPT !.pc = "closed", !.request_id = cw[w].request_id,
                          !.driver_pk_id = cw[w].driver_pk_id]

(* Variant: an abort that keeps the driver UPDATE of the match. *)
AbortedMatchDrivers_Kept(w) ==
    IF mw[w].pc \in {"update_request", "commit"} THEN MatchedDrivers(w) ELSE drivers

(* The rows after conn.rollback() of a matching transaction. *)
AbortedMatchDrivers(w) == drivers
AbortedMatchUsers(w) == users

(* Variant: an abort that keeps the request UPDATE of the completion. *)
AbortedCompletionUsers_Kept(w) ==
    IF cw[w].pc \in {"update_driver", "commit"} THEN CompletedUsers(w) ELSE users

(* The rows after conn.rollback() of a completion transaction. *)
AbortedCompletionUsers(w) == users
AbortedCompletionDrivers(w) == drivers

(* The end of a matching transaction that does not commit. *)
M_Abort(w) ==
    /\ mw[w].pc /= "closed"
    /\ drivers' = AbortedMatchDrivers(w)
    /\ users' = AbortedMatchUsers(w)
    /\ dlock' = ReleaseDrivers(w)
    /\ ulock' = ReleaseUsers(w)
    /\ mw' = [mw EXCEPT ![w] = MatcherClosed(w)]
    /\ UNCHANGED <<now, cw>>

(* The end of a completion transaction that does not commit. *)
C_Abort(w) ==
    /\ cw[w].pc /= "closed"
    /\ users' = AbortedCompletionUsers(w)
    /\ drivers' = AbortedCompletionDrivers(w)
    /\ dlock' = ReleaseDrivers(w)
    /\ ulock' = ReleaseUsers(w)
    /\ cw' = [cw EXCEPT ![w] = CompleterClosed(w)]
    /\ UNCHANGED <<now, mw>>

(* except Exception: conn.rollback(); finally: conn.close() *)
M_Exception(w) == M_Abort(w)
C_Exception(w) == C_Abort(w)

(* One matching worker and one completion worker run, as the two scripts are
   started. *)
NextError ==
    \/ \E io \in RideInputs : handle_ride_request(io[1], io[2])
    \/ Tick
    \/ M_ClaimRequest(FirstMatcher)
    \/ M_SelectDrivers(FirstMatcher)
    \/ \E d \in DriverPks : M_LockDriver(FirstMatcher, d)
    \/ M_UpdateDriver(FirstMatcher)
    \/ M_UpdateRequest(FirstMatcher)
    \/ M_Commit(FirstMatcher)
    \/ M_NoDriver(FirstMatcher)
    \/ C_ClaimRide(FirstCompleter)
    \/ C_UpdateRequest(FirstCompleter)
    \/ C_UpdateDriver(FirstCompleter)
    \/ C_Commit(FirstCompleter)
    \/ M_Exception(FirstMatcher)
    \/ C_Exception(FirstCompleter)

SpecError == Init /\ [][NextError]_vars

---------------------------------------------------------------------------
(* Stopping and starting the worker processes.  A worker is one process with
   one connection; when the process is killed the server aborts its open
   transaction, which has the effect of a rollback.  One matching and one
   completion process run at a time; each further worker is a process not yet
   started ("new"), which can be started once no other is running.  Every
   driver waits at the same place. *)
InitCrash ==
    /\ drivers \in [DriverPks -> [status : InitialDriverStatuses,
                                  current_location : {CentralStation}]]
    /\ users = <<>>
    /\ dlock = [d \in DriverPks |-> Free]
    /\ ulock = [r \in RequestIds |-> Free]
    /\ now = 1
    /\ mw = [w \in Matchers |->
                IF w = FirstMatcher THEN MatcherIdle
                ELSE [MatcherIdle EXCEPT !.pc = "new"]]
    /\ cw = [w \in Completers |->
                IF w = FirstCompleter THEN CompleterIdle
                ELSE [CompleterIdle EXCEPT !.pc = "new"]]

M_Crash(w) == mw[w].pc /= "new" /\ M_Abort(w)
C_Crash(w) == cw[w].pc /= "new" /\ C_Abort(w)

(* if __name__ == "__main__": process_matching_queue() *)
M_Start(w) ==
    /\ mw[w].pc = "new"
    /\ \A v \in Matchers \ {w} : mw[v].pc \in {"new", "closed"}
    /\ mw' = [mw EXCEPT ![w] = MatcherIdle]
    /\ UNCHANGED <<drivers, users, dlock, ulock, now, cw>>

(* if __name__ == "__main__": simulate_ride_completion() *)
C_Start(w) ==
    /\ cw[w].pc = "new"
    /\ \A v \in Completers \ {w} : cw[v].pc \in {"new", "closed"}
    /\ cw' = [cw EXCEPT ![w] = CompleterIdle]
    /\ UNCHANGED <<drivers, users, dlock, ulock, now, mw>>

NextCrash ==
    \/ Next
    \/ \E w \in Matchers : M_Crash(w)
    \/ \E w \in Completers : C_Crash(w)
    \/ \E w \in Matchers : M_Start(w)
    \/ \E w \in Completers : C_Start(w)

SpecCrash == InitCrash /\ [][NextCrash]_vars

---------------------------------------------------------------------------
(* The closed loop under fair scheduling: one matching worker and one
   completion worker, each of which keeps executing its "while True:" loop,
   and a clock that keeps advancing.  The last clock value stands for every
   later time: once it is reached, a running time.sleep(ride_duration) still
   runs down. *)
InitLive ==
    /\ Init
    /\ \E d \in DriverPks : drivers[d].status = "accepting"

TickLive ==
    /\ IF now < MaxLiveTime
       THEN now' = now + 1 /\ UNCHANGED cw
       ELSE /\ UNCHANGED now
            /\ cw' = [w \in Completers |->
                        IF cw[w].pc = "ride" /\ cw[w].wake > now
                        THEN [cw[w] EXCEPT !.wake = @ - 1]
                        ELSE cw[w]]
    /\ UNCHANGED <<drivers, users, dlock, ulock, mw>>

process_matching_queue ==
    \/ M_ClaimRequest(FirstMatcher)
    \/ M_SelectDrivers(FirstMatcher)
    \/ \E d \in DriverPks : M_LockDriver(FirstMatcher, d)
    \/ M_UpdateDriver(FirstMatcher)
    \/ M_UpdateRequest(FirstMatcher)
    \/ M_Commit(FirstMatcher)
    \/ M_NoDriver(FirstMatcher)

simulate_ride_completion ==
    \/ C_ClaimRide(FirstCompleter)
    \/ C_UpdateRequest(FirstCompleter)
    \/ C_UpdateDriver(FirstCompleter)
    \/ C_Commit(FirstCompleter)

NextLive ==
    \/ \E io \in RideInputs : handle_ride_request(io[1], io[2])
    \/ TickLive
    \/ process_matching_queue
    \/ simulate_ride_completion

SpecLive ==
    /\ InitLive /\ [][NextLive]_vars
    /\ WF_vars(TickLive)
    /\ WF_vars(process_matching_queue)
    /\ WF_vars(simulate_ride_completion)

----------------------------------------------------------------------------
(* The queue with a request no driver can serve: the fair closed loop of one
   matching worker and one completion worker, where a ride request may name a
   source that is not a zone. *)
HeadOfLineInputs == {<<Atlantis, CentralStation>>, <<CentralStation, CentralStation>>}

NextHeadOfLine ==
    \/ \E io \in HeadOfLineInputs : handle_ride_request(io[1], io[2])
    \/ TickLive
    \/ process_matching_queue
    \/ simulate_ride_completion

SpecHeadOfLine ==
    /\ InitLive /\ [][NextHeadOfLine]_vars
    /\ WF_vars(TickLive)
    /\ WF_vars(process_matching_queue)
    /\ WF_vars(simulate_ride_completion)

---------------------------------------------------------------------------
(* One matching worker beside every completion worker, and one completion
   worker beside every matching worker. *)
NextOneMatcher ==
    \/ \E io \in RideInputs : handle_ride_request(io[1], io[2])
    \/ Tick
    \/ process_matching_queue
    \/ \E w \in Completers : C_ClaimRide(w)
    \/ \E w \in Completers : C_UpdateRequest(w)
    \/ \E w \in Completers : C_UpdateDriver(w)
    \/ \E w \in Completers : C_Commit(w)

SpecOneMatcher == Init /\ [][NextOneMatcher]_vars

NextOneCompleter ==
    \/ \E io \in RideInputs : handle_ride_request(io[1], io[2])
    \/ Tick
    \/ \E w \in Matchers : M_ClaimRequest(w)
    \/ \E w \in Matchers : M_SelectDrivers(w)
    \/ \E w \in Matchers : \E d \in DriverPks : M_LockDriver(w, d)
    \/ \E w \in Matchers : M_UpdateDriver(w)
    \/ \E w \in Matchers : M_UpdateRequest(w)
    \/ \E w \in Matchers : M_Commit(w)
    \/ \E w \in Matchers : M_NoDriver(w)
    \/ simulate_ride_completion

SpecOneCompleter == Init /\ [][NextOneCompleter]_vars

---------------------------------------------------------------------------
(* POST /api/register-driver for a driver_id that exists: INSERT ... ON
   CONFLICT (driver_id) DO UPDATE SET status = 'accepting', current_location
   and commit.  The UPDATE of the conflicting row waits while a worker holds
   the row's lock. *)
register_driver(d, current_location) ==
    /\ dlock[d] = Free
    /\ drivers' = [drivers EXCEPT ![d] =
                      [status |-> "accepting", current_location |-> current_location]]
    /\ UNCHANGED <<users, dlock, ulock, now, mw, cw>>

NextRegister ==
    \/ \E io \in RideInputs : handle_ride_request(io[1], io[2])
    \/ Tick
    \/ process_matching_queue
    \/ simulate_ride_completion
    \/ \E d \in DriverPks : \E l \in DriverLocations : register_driver(d, l)

SpecRegister == Init /\ [][NextRegister]_vars

----------------------------------------------------------------------------
(* The drivers table under registration.  Here drivers is the table as a
   sequence of rows, the SERIAL primary key being the position of a row, and a
   row carries its driver_id; mw holds the number of registrations served and
   the payload and answer of the last one.  Beside the registrations run the
   two status UPDATEs of the workers. *)
MaxRegistrations == 3

DriverRegistration ==
    [driver_id : {DriverIdOf(d) : d \in DriverPks},
     current_location : DriverLocations,
     status : InitialDriverStatuses]

InitUpsert ==
    /\ drivers = <<>>
    /\ users = <<>>
    /\ dlock = [d \in DriverPks |-> Free]
    /\ ulock = [r \in RequestIds |-> Free]
    /\ now = 1
    /\ mw = [calls |-> 0, driver_data |-> NULL, driver_pk_id |-> NULL]
    /\ cw = [w \in Completers |-> CompleterIdle]

(* The row INSERT ... ON CONFLICT (driver_id) hits: the row of that driver_id,
   or the next primary key. *)
ConflictRow(driver_id) ==
    IF \E i \in DOMAIN drivers : drivers[i].driver_id = driver_id
    THEN CHOOSE i \in DOMAIN drivers : drivers[i].driver_id = driver_id
    ELSE Len(drivers) + 1

(* Variant: the upsert stores the status sent in the payload. *)
UpsertedRow_PayloadStatus(driver_data) ==
    [driver_id |-> driver_data.driver_id, status |-> driver_data.status,
     current_location |-> driver_data.current_location]

(* VALUES (driver_id, name, DriverStatus.accepting.value, current_location) *)
UpsertedRow(driver_data) ==
    [driver_id |-> driver_data.driver_id, status |-> "accepting",
     current_location |-> driver_data.current_location]

Upsert(driver_data) ==
    LET id == ConflictRow(driver_data.driver_id)
    IN IF id \in DOMAIN drivers
       THEN [drivers EXCEPT ![id] = UpsertedRow(driver_data)]
       ELSE Append(drivers, UpsertedRow(driver_data))

(* POST /api/register-driver: the upsert, RETURNING id, commit. *)
register_driver_upsert(driver_data) ==
    /\ mw.calls < MaxRegistrations
    /\ drivers' = Upsert(driver_data)
    /\ mw' = [calls |-> mw.calls + 1, driver_data |-> driver_data,
              driver_pk_id |-> ConflictRow(driver_data.driver_id)]
    /\ UNCHANGED <<users, dlock, ulock, now, cw>>

(* UPDATE drivers SET status = 'in a drive' WHERE id = %s, committed. *)
U_DriverInADrive(id) ==
    /\ id \in DOMAIN drivers
    /\ drivers[id].status = "accepting"
    /\ drivers' = [drivers EXCEPT ![id].status = "in a drive"]
    /\ UNCHANGED <<users, dlock, ulock, now, mw, cw>>

(* UPDATE drivers SET status = 'accepting' WHERE id = %s, committed. *)
U_DriverAccepting(id) ==
    /\ id \in DOMAIN drivers
    /\ drivers[id].status = "in a drive"
    /\ drivers' = [drivers EXCEPT ![id].status = "accepting"]
    /\ UNCHANGED <<users, dlock, ulock, now, mw, cw>>

NextUpsert ==
    \/ \E driver_data \in DriverRegistration : register_driver_upsert(driver_data)
    \/ \E id \in DriverPks : U_DriverInADrive(id)
    \/ \E id \in DriverPks : U_DriverAccepting(id)

SpecUpsert == InitUpsert /\ [][NextUpsert]_vars

----------------------------------------------------------------------------
(* The status endpoint.  The two workers act in whole committed iterations
   (nothing else contends for their rows here), and cw holds the number of
   GET /api/ride-status calls served and the last call's request id and
   answer. *)
MaxStatusCalls == 2

StatusRequestIds == 1..(MaxRequests + 1)

NoResponse == [raised |-> FALSE, status_code |-> 0]

InitStatus ==
    /\ drivers \in [DriverPks -> [status : InitialDriverStatuses,
                                  current_location : DriverLocations]]
    /\ users = <<>>
    /\ dlock = [d \in DriverPks |-> Free]
    /\ ulock = [r \in RequestIds |-> Free]
    /\ now = 1
    /\ mw = [w \in Matchers |-> MatcherIdle]
    /\ cw = [calls |-> 0, request_id |-> NULL, response |-> NoResponse]

(* A committed match of a pending request with an 'accepting' driver. *)
Q_Match(r, d) ==
    /\ r \in DOMAIN users
    /\ users[r].request_status = "pending"
    /\ drivers[d].status = "accepting"
    /\ drivers' = [drivers EXCEPT ![d].status = "in a drive"]
    /\ users' = [users EXCEPT ![r] =
                    [@ EXCEPT !.request_status = "matched", !.driver_fk_id = d,
                              !.match_time = now]]
    /\ UNCHANGED <<dlock, ulock, now, mw, cw>>

(* A committed completion of a matched request. *)
Q_Complete(r) ==
    /\ r \in DOMAIN users
    /\ users[r].request_status = "matched"
    /\ users' = [users EXCEPT ![r] =
                    [@ EXCEPT !.request_status = "completed", !.completion_time = now]]
    /\ drivers' = [drivers EXCEPT ![users[r].driver_fk_id].status = "accepting"]
    /\ UNCHANGED <<dlock, ulock, now, mw, cw>>

(* The body of "try:": the SELECT of the request LEFT JOIN its driver, then
   either raise HTTPException(404) or return the response.  driver_info is
   the empty sequence when the key is left out of the response; d.name is
   NULL without a joined driver and a non-empty string with one. *)
get_ride_status_try(request_id) ==
    IF request_id \notin DOMAIN users
    THEN [raised |-> TRUE, status_code |-> 404, detail |-> "Request ID not found."]
    ELSE LET u == users[request_id]
             driver_name == IF u.driver_fk_id = NULL THEN None
                            ELSE "name"
         IN [raised |-> FALSE, status_code |-> 200, request_id |-> request_id,
             status |-> u.request_status,
             source |-> u.source_location, destination |-> u.destination_location,
             driver_info |->
                 IF Truthy(driver_name) /\ u.request_status = "matched"
                 THEN <<[driver_id |-> DriverIdOf(u.driver_fk_id),
                         current_location |-> drivers[u.driver_fk_id].current_location]>>
                 ELSE <<>>]

(* "except Exception as e": every exception raised in the body, the
   HTTPException(404) included, is answered with HTTPException(500). *)
get_ride_status_except(attempt) ==
    IF attempt.raised
    THEN [raised |-> TRUE, status_code |-> 500, detail |-> "Internal Server Error."]
    ELSE attempt

get_ride_status(request_id) ==
    /\ cw.calls < MaxStatusCalls
    /\ cw' = [calls |-> cw.calls + 1, request_id |-> request_id,
              response |-> get_ride_status_except(get_ride_status_try(request_id))]
    /\ UNCHANGED <<drivers, users, dlock, ulock, now, mw>>

NextStatus ==
    \/ \E io \in RideInputs : handle_ride_request(io[1], io[2])
    \/ Tick
    \/ \E r \in RequestIds : \E d \in DriverPks : Q_Match(r, d)
    \/ \E r \in RequestIds : Q_Complete(r)
    \/ \E request_id \in StatusRequestIds : get_ride_status(request_id)

SpecStatus == InitStatus /\ [][NextStatus]_vars

----------------------------------------------------------------------------
(* Event bookings.  POST /api/events/book-ride is served one call at a time;
   here mw holds the events table and the event_bookings table, users is the
   users table, and cw holds the call in progress: its arguments, its position,
   the rows its transaction has inserted and not yet committed, and its
   answer.  Any statement of the transaction may fail with a psycopg2.Error. *)
MaxBookings == 2

Stadium == <<"Stadium">>
EventIds == 1..3
TripTypes == {"round-trip", "one-way"}

(* events: id 1 active, id 2 inactive, id 3 absent *)
EventsTable ==
    [e \in 1..2 |-> [venue_location |-> Stadium, is_active |-> (e = 1)]]

BookingIdle ==
    [pc |-> "idle", calls |-> 0, event_id |-> NULL, user_source |-> <<>>,
     trip_type |-> "", venue_location |-> <<>>, rides |-> <<>>, booking |-> <<>>,
     to_event_ride_id |-> NULL, from_event_ride_id |-> NULL, status_code |-> 0]

InitBooking ==
    /\ drivers \in [DriverPks -> [status : InitialDriverStatuses,
                                  current_location : DriverLocations]]
    /\ users = <<>>
    /\ dlock = [d \in DriverPks |-> Free]
    /\ ulock = [r \in RequestIds |-> Free]
    /\ now = 1
    /\ mw = [events |-> EventsTable, event_bookings |-> <<>>]
    /\ cw = BookingIdle

(* The call arrives; cursor = conn.cursor(). *)
E_Call(event_id, user_source, trip_type) ==
    /\ cw.pc \in {"idle", "done"}
    /\ cw.calls < MaxBookings
    /\ cw' = [BookingIdle EXCEPT !.pc = "select", !.calls = cw.calls + 1,
                                 !.event_id = event_id, !.user_source = user_source,
                                 !.trip_type = trip_type]
    /\ UNCHANGED <<drivers, users, dlock, ulock, now, mw>>

(* Variant: a rollback that leaves the inserted rides in the table. *)
RolledBackUsers_Partial == users \o cw.rides

(* The tables after conn.rollback() and after conn.commit(). *)
RolledBackUsers == users

RolledBackBookings == mw.event_bookings

CommittedUsers == users \o cw.rides

CommittedBookings == mw.event_bookings \o cw.booking

E_Rollback(status_code) ==
    /\ users' = RolledBackUsers
    /\ mw' = [mw EXCEPT !.event_bookings = RolledBackBookings]
    /\ cw' = [cw EXCEPT !.pc = "done", !.rides = <<>>, !.booking = <<>>,
                        !.status_code = status_code]
    /\ UNCHANGED <<drivers, dlock, ulock, now>>

(* 1. SELECT venue_location FROM events WHERE id = %s AND is_active = TRUE;
   without a row: HTTPException(404), caught by "except HTTPException",
   rolled back and re-raised. *)
E_SelectEvent ==
    /\ cw.pc = "select"
    /\ IF cw.event_id \in DOMAIN mw.events /\ mw.events[cw.event_id].is_active
       THEN /\ cw' = [cw EXCEPT !.pc = "insert_to",
                        !.venue_location = mw.events[cw.event_id].venue_location]
            /\ UNCHANGED <<drivers, users, dlock, ulock, now, mw>>
       ELSE E_Rollback(404)

(* 2. INSERT the ride to the event ... RETURNING id. *)
E_InsertTo ==
    /\ cw.pc = "insert_to"
    /\ cw' = [cw EXCEPT !.pc = IF cw.trip_type = "round-trip"
                                THEN "insert_from" ELSE "insert_booking",
                        !.rides = Append(@, NewRequest(cw.user_source, cw.venue_location)),
                        !.to_event_ride_id = Len(users) + Len(cw.rides) + 1]
    /\ UNCHANGED <<drivers, users, dlock, ulock, now, mw>>

(* 3. INSERT the ride from the event, only if trip_type == "round-trip". *)
E_InsertFrom ==
    /\ cw.pc = "insert_from"
    /\ cw' = [cw EXCEPT !.pc = "insert_booking",
                        !.rides = Append(@, NewRequest(cw.venue_location, cw.user_source)),
                        !.from_event_ride_id = Len(users) + Len(cw.rides) + 1]
    /\ UNCHANGED <<drivers, users, dlock, ulock, now, mw>>

(* 4. INSERT INTO event_bookings. *)
E_InsertBooking ==
    /\ cw.pc = "insert_booking"
    /\ cw' = [cw EXCEPT !.pc = "commit",
                        !.booking = <<[event_fk_id |-> cw.event_id,
                                       to_event_ride_fk_id |-> cw.to_event_ride_id,
                                       from_event_ride_fk_id |-> cw.from_event_ride_id,
                                       trip_type |-> cw.trip_type]>>]
    /\ UNCHANGED <<drivers, users, dlock, ulock, now, mw>>

(* conn.commit() and the 200 answer. *)
E_Commit ==
    /\ cw.pc = "commit"
    /\ users' = CommittedUsers
    /\ mw' = [mw EXCEPT !.event_bookings = CommittedBookings]
    /\ cw' = [cw EXCEPT !.pc = "done", !.rides = <<>>, !.booking = <<>>,
                        !.status_code = 200]
    /\ UNCHANGED <<drivers, dlock, ulock, now>>

(* "except psycopg2.Error": a statement or the commit fails; conn.rollback()
   and HTTPException(500). *)
E_Error ==
    /\ cw.pc \in {"select", "insert_to", "insert_from", "insert_booking", "commit"}
    /\ E_Rollback(500)

book_event_ride ==
    \/ E_SelectEvent
    \/ E_InsertTo
    \/ E_InsertFrom
    \/ E_InsertBooking
    \/ E_Commit
    \/ E_Error

NextBooking ==
    \/ \E event_id \in EventIds, trip_type \in TripTypes :
           E_Call(event_id, CentralStation, trip_type)
    \/ book_event_ride

SpecBooking == InitBooking /\ [][NextBooking]_vars

----------------------------------------------------------------------------
(* The client queue processor.  Here mw is the request_queue table in
   arrival order, users is the users table of the API server, and cw holds the
   locals of process_queue: its position, the queue row it fetched and the
   driver_match_status of the answer.  One processor runs, so SKIP LOCKED
   skips nothing. *)
MaxQueue == 2

RECURSIVE Queues(_)
Queues(n) ==
    IF n = 0 THEN {<<>>}
    ELSE Queues(n - 1) \cup
         {Append(q, [id |-> Len(q) + 1, source_location |-> io[1],
                     destination_location |-> io[2]]) :
              q \in {x \in Queues(n - 1) : Len(x) = n - 1}, io \in TimedRideInputs}

(* response.json() of an answer of the API at SERVER_API_URL: the answer of
   handle_ride_request, which has no driver_match_status, and an answer that
   reports an unserviced request. *)
Responses ==
    {[message |-> <<"Ride request received and queued for matching.">>],
     [message |-> <<"unserviced">>,
      driver_match_status |-> <<"WARNING: ", "No driver available", " right now">>]}

(* response_json.get("driver_match_status", "") *)
DriverMatchStatus(response_json) ==
    IF "driver_match_status" \in DOMAIN response_json
    THEN response_json.driver_match_status
    ELSE <<>>

(* needle in haystack, on token sequences *)
In(needle, haystack) ==
    \E i \in 1..(Len(haystack) - Len(needle) + 1) :
        SubSeq(haystack, i, i + Len(needle) - 1) = needle

ProcessorIdle ==
    [pc |-> "poll", queue_id |-> NULL, source |-> <<>>, destination |-> <<>>,
     driver_status |-> <<>>]

InitQueue ==
    /\ drivers = [d \in DriverPks |->
                    [status |-> "accepting", current_location |-> CentralStation]]
    /\ users = <<>>
    /\ dlock = [d \in DriverPks |-> Free]
    /\ ulock = [r \in RequestIds |-> Free]
    /\ now = 1
    /\ mw \in Queues(MaxQueue)
    /\ cw = ProcessorIdle

(* Variant: the rollback loses the fetched row. *)
RolledBackQueue_Dropped == Tail(mw)

(* request_queue after conn.rollback(): the DELETE, if any, is undone and the
   row lock released. *)
RolledBackQueue == mw

(* request_queue after DELETE ... WHERE id = queue_id and conn.commit(). *)
DeletedQueue ==
    SubSeq(mw, 2, Len(mw))

(* The INSERT of handle_ride_request on the server, if the request got there. *)
Logged(logged) ==
    IF logged THEN Append(users, NewRequest(cw.source, cw.destination)) ELSE users

(* 1. fetch the oldest row FOR UPDATE; none: break. *)
Q_Fetch ==
    /\ cw.pc = "poll"
    /\ IF mw = <<>>
       THEN cw' = [ProcessorIdle EXCEPT !.pc = "stopped"]
       ELSE cw' = [ProcessorIdle EXCEPT !.pc = "post", !.queue_id = Head(mw).id,
                                        !.source = Head(mw).source_location,
                                        !.destination = Head(mw).destination_location]
    /\ UNCHANGED <<drivers, users, dlock, ulock, now, mw>>

(* 2. requests.post raises a RequestException (no connection, or an HTTP
   error status): conn.rollback(), next iteration. *)
Q_PostFailed(logged) ==
    /\ cw.pc = "post"
    /\ logged => Len(users) < MaxRequests
    /\ users' = Logged(logged)
    /\ mw' = RolledBackQueue
    /\ cw' = ProcessorIdle
    /\ UNCHANGED <<drivers, dlock, ulock, now>>

(* 2-3. the API answers: "No driver available" in driver_status rolls back
   and sleeps a second; any other answer goes on to the DELETE. *)
Q_PostAnswered(response_json, logged) ==
    /\ cw.pc = "post"
    /\ logged => Len(users) < MaxRequests
    /\ "driver_match_status" \notin DOMAIN response_json => logged
    /\ users' = Logged(logged)
    /\ LET driver_status == DriverMatchStatus(response_json)
       IN IF In(<<"No driver available">>, driver_status)
          THEN /\ mw' = RolledBackQueue
               /\ cw' = [ProcessorIdle EXCEPT !.driver_status = driver_status]
          ELSE /\ mw' = mw
               /\ cw' = [cw EXCEPT !.pc = "delete", !.driver_status = driver_status]
    /\ UNCHANGED <<drivers, dlock, ulock, now>>

(* DELETE FROM request_queue WHERE id = queue_id; conn.commit(). *)
Q_Delete ==
    /\ cw.pc = "delete"
    /\ mw' = DeletedQueue
    /\ cw' = ProcessorIdle
    /\ UNCHANGED <<drivers, users, dlock, ulock, now>>

(* "except psycopg2.Error": the DELETE or the commit fails; conn.rollback(). *)
Q_DeleteFailed ==
    /\ cw.pc = "delete"
    /\ mw' = RolledBackQueue
    /\ cw' = [ProcessorIdle EXCEPT !.driver_status = cw.driver_status]
    /\ UNCHANGED <<drivers, users, dlock, ulock, now>>

process_queue ==
    \/ Q_Fetch
    \/ \E logged \in BOOLEAN : Q_PostFailed(logged)
    \/ \E response_json \in Responses : \E logged \in BOOLEAN :
           Q_PostAnswered(response_json, logged)
    \/ Q_Delete
    \/ Q_DeleteFailed

NextQueue == process_queue

SpecQueue == InitQueue /\ [][NextQueue]_vars

---------------------------------------------------------------------------
(* The back-off of the matching worker.  One matching worker runs alone, so
   an iteration is one step: its locks are contended by nobody.  mw[w] holds
   the position of the loop, the wake-up time of a running time.sleep and the
   lengths of the last back-off of either kind (0: none yet). *)
IDLE_BACKOFF == 1     \* time.sleep(1): no pending request
RETRY_BACKOFF == 2    \* time.sleep(2): no driver available

BackoffIdle == [pc |-> "poll", wake |-> 0, idle_slept |-> 0, retry_slept |-> 0]

InitBackoff ==
    /\ drivers \in [DriverPks -> [status : InitialDriverStatuses,
                                  current_location : DriverLocations]]
    /\ users = <<>>
    /\ dlock = [d \in DriverPks |-> Free]
    /\ ulock = [r \in RequestIds |-> Free]
    /\ now = 1
    /\ mw = [w \in Matchers |-> BackoffIdle]
    /\ cw = [w \in Completers |-> CompleterIdle]

(* The rows of the driver SELECT in one of the orders the store can return. *)
FetchOrders ==
    {rows \in [1..Cardinality(AcceptingSnapshot) -> AcceptingSnapshot] :
        \A i, j \in DOMAIN rows : i /= j => rows[i] /= rows[j]}

(* "if not request: time.sleep(1); continue" *)
B_IdleBackoff(w) ==
    /\ mw[w].pc = "poll"
    /\ ClaimablePending = {}
    /\ mw' = [mw EXCEPT ![w].pc = "sleep", ![w].wake = now + IDLE_BACKOFF,
                        ![w].idle_slept = IDLE_BACKOFF]
    /\ UNCHANGED <<drivers, users, dlock, ulock, now, cw>>

(* A request is fetched and find_best_driver returns no driver:
   conn.rollback(); time.sleep(2) *)
B_RetryBackoff(w) ==
    /\ mw[w].pc = "poll"
    /\ \E r \in OldestPending : \E order \in FetchOrders :
          ~Truthy(find_best_driver(users[r].source_location,
                                   [i \in DOMAIN order |-> FetchedRow(order[i])]).driver_id)
    /\ mw' = [mw EXCEPT ![w].pc = "sleep", ![w].wake = now + RETRY_BACKOFF,
                        ![w].retry_slept = RETRY_BACKOFF]
    /\ UNCHANGED <<drivers, users, dlock, ulock, now, cw>>

(* A request is fetched, find_best_driver returns a driver, both UPDATEs and
   the commit. *)
B_Match(w) ==
    /\ mw[w].pc = "poll"
    /\ \E r \in OldestPending : \E order \in FetchOrders :
          LET best == find_best_driver(users[r].source_location,
                                       [i \in DOMAIN order |-> FetchedRow(order[i])])
          IN /\ Truthy(best.driver_id)
             /\ drivers' = [drivers EXCEPT ![best.driver_pk_id].status = "in a drive"]
             /\ users' = [users EXCEPT ![r] =
                             [@ EXCEPT !.request_status = "matched",
                                       !.driver_fk_id = best.driver_pk_id,
                                       !.match_time = now]]
    /\ UNCHANGED <<dlock, ulock, now, mw, cw>>

(* The end of time.sleep. *)
B_Wake(w) ==
    /\ mw[w].pc = "sleep"
    /\ now >= mw[w].wake
    /\ mw' = [mw EXCEPT ![w].pc = "poll"]
    /\ UNCHANGED <<drivers, users, dlock, ulock, now, cw>>

NextBackoff ==
    \/ \E io \in RideInputs : handle_ride_request(io[1], io[2])
    \/ Tick
    \/ B_IdleBackoff(FirstMatcher)
    \/ B_RetryBackoff(FirstMatcher)
    \/ B_Match(FirstMatcher)
    \/ B_Wake(FirstMatcher)

SpecBackoff == InitBackoff /\ [][NextBackoff]_vars

---------------------------------------------------------------------------
(* The duel: two matching attempts that have each claimed one of two pending
   requests while exactly one driver is 'accepting'; the attempts run to their
   end and no ride is completed meanwhile. *)
InitDuel ==
    /\ drivers \in [DriverPks -> [status : InitialDriverStatuses,
                                  current_location : DriverLocations]]
    /\ Cardinality({d \in DriverPks : drivers[d].status = "accepting"}) = 1
    /\ now = 1
    /\ \E i1, i2 \in TimedRideInputs :
          users = <<NewRequest(i1[1], i1[2]), NewRequest(i2[1], i2[2])>>
    /\ dlock = [d \in DriverPks |-> Free]
    /\ \E first \in {1, 2} :
          /\ ulock = [r \in RequestIds |->
                        IF r = first THEN 1 ELSE IF r = 3 - first THEN 2 ELSE Free]
          /\ mw = [w \in Matchers |->
                     IF w \in {1, 2}
                     THEN [MatcherIdle EXCEPT
                              !.pc = "find", !.txn_start = now,
                              !.request_id = IF w = 1 THEN first ELSE 3 - first,
                              !.source_location =
                                  users[IF w = 1 THEN first ELSE 3 - first].source_location]
                     ELSE MatcherIdle]
    /\ cw = [w \in Completers |-> CompleterIdle]

NextDuel ==
    \/ Tick
    \/ \E w \in Matchers : M_SelectDrivers(w)
    \/ \E w \in Matchers : \E d \in DriverPks : M_LockDriver(w, d)
    \/ \E w \in Matchers : M_UpdateDriver(w)
    \/ \E w \in Matchers : M_UpdateRequest(w)
    \/ \E w \in Matchers : M_Commit(w)
    \/ \E w \in Matchers : M_NoDriver(w)

SpecDuel == InitDuel /\ [][NextDuel]_vars

---------------------------------------------------------------------------
(* find_best_driver as a function of the request source and the fetched rows:
   mw holds the arguments of one call and then its result. *)
RECURSIVE FetchedLists(_)
FetchedLists(n) ==
    IF n = 0 THEN {<<>>}
    ELSE FetchedLists(n - 1) \cup
         {Append(rows, [id |-> Len(rows) + 1, driver_id |-> DriverIdOf(Len(rows) + 1),
                        current_location |-> l]) :
              rows \in {x \in FetchedLists(n - 1) : Len(x) = n - 1}, l \in BestInputs}

InitBest ==
    /\ drivers = [d \in DriverPks |->
                    [status |-> "accepting", current_location |-> CentralStation]]
    /\ users = <<>>
    /\ dlock = [d \in DriverPks |-> Free]
    /\ ulock = [r \in RequestIds |-> Free]
    /\ now = 1
    /\ cw = [w \in Completers |-> CompleterIdle]
    /\ \E source \in BestInputs, rows \in FetchedLists(MaxFetched) :
          mw = [pc |-> "call", user_source_location |-> source,
                available_drivers |-> rows, result |-> NoMatch]

Call_find_best_driver ==
    /\ mw.pc = "call"
    /\ mw' = [mw EXCEPT !.pc = "return",
                        !.result = find_best_driver(mw.user_source_location,
                                                    mw.available_drivers)]
    /\ UNCHANGED <<drivers, users, dlock, ulock, now, cw>>

NextBest == Call_find_best_driver

SpecBest == InitBest /\ [][NextBest]_vars

---------------------------------------------------------------------------
(* calculate_ride_duration as a function of its two arguments: cw holds the
   arguments, then the result of the call and of the call with the arguments
   exchanged. *)
InitDuration ==
    /\ drivers = [d \in DriverPks |->
                    [status |-> "accepting", current_location |-> CentralStation]]
    /\ users = <<>>
    /\ dlock = [d \in DriverPks |-> Free]
    /\ ulock = [r \in RequestIds |-> Free]
    /\ now = 1
    /\ mw = [w \in Matchers |-> MatcherIdle]
    /\ \E source \in BestInputs, destination \in BestInputs :
          cw = [pc |-> "call", source |-> source, destination |-> destination,
                duration |-> 0, duration_back |-> 0]

Call_calculate_ride_duration ==
    /\ cw.pc = "call"
    /\ cw' = [cw EXCEPT !.pc = "call_back",
                        !.duration = calculate_ride_duration(cw.source, cw.destination)]
    /\ UNCHANGED <<drivers, users, dlock, ulock, now, mw>>

Call_calculate_ride_duration_back ==
    /\ cw.pc = "call_back"
    /\ cw' = [cw EXCEPT !.pc = "return",
                        !.duration_back = calculate_ride_duration(cw.destination, cw.source)]
    /\ UNCHANGED <<drivers, users, dlock, ulock, now, mw>>

NextDuration ==
    \/ Call_calculate_ride_duration
    \/ Call_calculate_ride_duration_back

SpecDuration == InitDuration /\ [][NextDuration]_vars

---------------------------------------------------------------------------
(* Vocabulary of the properties. *)
Requests == 1..Len(users)
StatusOf(r) == users[r].request_status
InFlight(w) == mw[w].pc /= "poll"

(* The driver rows an in-flight matching attempt has fetched and locked. *)
ClaimedDrivers(w) == {mw[w].available_drivers[i].id : i \in DOMAIN mw[w].available_drivers}

(* Coordinate of a known zone, read off the enumeration. *)
IsZone(l) == Replace(l) \in DOMAIN Location
Coordinate(l) == Location[Replace(l)]

---------------------------------------------------------------------------
(* C1: double-booking invariant.  In every committed state no driver is
   referenced by two different requests that are both 'matched'. *)
C1_NoDoubleBooking ==
    \A r1, r2 \in Requests :
        (r1 /= r2 /\ StatusOf(r1) = "matched" /\ StatusOf(r2) = "matched")
            => users[r1].driver_fk_id /= users[r2].driver_fk_id

(* Two rides are open at once, and a driver freed by a completed ride is
   matched again. *)
C1_Witness ==
    \E r1, r2 \in Requests :
        /\ StatusOf(r1) = "completed" /\ StatusOf(r2) = "matched"
        /\ users[r1].driver_fk_id = users[r2].driver_fk_id

(* The parts of C2. *)
C2_ClaimsDisjoint ==
    \A w1, w2 \in Matchers :
        (w1 /= w2 /\ InFlight(w1) /\ InFlight(w2)) =>
            /\ mw[w1].request_id /= mw[w2].request_id
            /\ ClaimedDrivers(w1) \cap ClaimedDrivers(w2) = {}

C2_MatchedOnce ==
    \A r \in Requests :
        StatusOf(r) /= "pending" =>
            /\ users'[r].request_status /= "pending"
            /\ users'[r].driver_fk_id = users[r].driver_fk_id
            /\ users'[r].match_time = users[r].match_time

C2_CommitUnclaimed ==
    \A r \in Requests :
        (StatusOf(r) = "pending" /\ users'[r].request_status = "matched") =>
            \E w \in Matchers :
                /\ mw[w].request_id = r
                /\ users'[r].driver_fk_id \in ClaimedDrivers(w)
                /\ \A v \in Matchers \ {w} : users'[r].driver_fk_id \notin ClaimedDrivers(v)

(* C2: two in-flight matching attempts never hold the same request nor a
   common driver row; a request that has left 'pending' keeps its driver and
   match time for ever (it is matched at most once); a commit assigns a driver
   no other in-flight attempt has claimed. *)
C2_NoDoubleClaim ==
    /\ []C2_ClaimsDisjoint
    /\ [][C2_MatchedOnce /\ C2_CommitUnclaimed]_vars

(* Both workers are in flight, each holding a request and a driver. *)
C2_Witness ==
    \E w1, w2 \in Matchers :
        /\ w1 /= w2
        /\ mw[w1].pc = "commit" /\ mw[w2].pc = "commit"
        /\ ClaimedDrivers(w1) /= {} /\ ClaimedDrivers(w2) /= {}

(* The parts of C4. *)
C4_MatchedHasDriver ==
    \A r \in Requests :
        StatusOf(r) = "matched" =>
            /\ users[r].driver_fk_id \in DriverPks
            /\ drivers[users[r].driver_fk_id].status = "in a drive"

C4_SameCommit ==
    \A r \in Requests :
        (StatusOf(r) = "pending" /\ users'[r].request_status = "matched") =>
            /\ users'[r].driver_fk_id \in DriverPks
            /\ drivers[users'[r].driver_fk_id].status = "accepting"
            /\ drivers'[users'[r].driver_fk_id].status = "in a drive"

(* C4: a 'matched' request has a driver reference and that driver is
   'in a drive'; the driver went accepting -> in a drive in the very step
   that made the request 'matched'. *)
C4_MatchedDriverOnTrip ==
    /\ []C4_MatchedHasDriver
    /\ [][C4_SameCommit]_vars

(* A request is matched while its driver is on the ride. *)
C4_Witness ==
    \E r \in Requests :
        /\ StatusOf(r) = "matched"
        /\ drivers[users[r].driver_fk_id].status = "in a drive"
        /\ users[r].match_time /= NULL

(* The parts of C5. *)
C5_CompletedFromMatched ==
    \A r \in Requests :
        (StatusOf(r) /= "completed" /\ users'[r].request_status = "completed") =>
            /\ StatusOf(r) = "matched"
            /\ users[r].driver_fk_id /= NULL
            /\ users'[r].driver_fk_id = users[r].driver_fk_id

C5_ReleaseNotBeforeCompletion ==
    \A d \in DriverPks :
        (drivers[d].status = "in a drive" /\ drivers'[d].status = "accepting") =>
            \E r \in Requests :
                /\ users[r].driver_fk_id = d
                /\ StatusOf(r) = "matched"
                /\ users'[r].request_status = "completed"

(* C5: a request becomes 'completed' only from 'matched', keeping its driver
   reference; a driver returns from 'in a drive' to 'accepting' only in a
   step in which the request that references it becomes 'completed'. *)
C5_CompletionHistory == [][C5_CompletedFromMatched /\ C5_ReleaseNotBeforeCompletion]_vars

(* A ride is completed and its driver accepts again. *)
C5_Witness ==
    \E r \in Requests :
        /\ StatusOf(r) = "completed"
        /\ drivers[users[r].driver_fk_id].status = "accepting"

(* C6: match_time is set iff the request is matched or completed; so is
   driver_fk_id; completion_time is set iff the request is completed. *)
C6_NullIffStatus ==
    \A r \in Requests :
        /\ (users[r].match_time /= NULL) <=> (StatusOf(r) \in {"matched", "completed"})
        /\ (users[r].driver_fk_id /= NULL) <=> (StatusOf(r) \in {"matched", "completed"})
        /\ (users[r].completion_time /= NULL) <=> (StatusOf(r) = "completed")

(* One request of each status is in the table... *)
C6_Witness ==
    \E r1, r2 \in Requests :
        /\ StatusOf(r1) = "completed" /\ users[r1].completion_time /= NULL
        /\ StatusOf(r2) = "matched" /\ users[r2].completion_time = NULL

(* The parts of C7. *)
C7_MatchPaired ==
    /\ \A r \in Requests :
        (StatusOf(r) /= "matched" /\ users'[r].request_status = "matched") =>
            /\ drivers[users'[r].driver_fk_id].status = "accepting"
            /\ drivers'[users'[r].driver_fk_id].status = "in a drive"
    /\ \A d \in DriverPks :
        (drivers[d].status /= "in a drive" /\ drivers'[d].status = "in a drive") =>
            \E r \in Requests :
                /\ StatusOf(r) = "pending"
                /\ users'[r].request_status = "matched"
                /\ users'[r].driver_fk_id = d

C7_CompletionPaired ==
    /\ \A r \in Requests :
        (StatusOf(r) /= "completed" /\ users'[r].request_status = "completed") =>
            /\ drivers[users[r].driver_fk_id].status = "in a drive"
            /\ drivers'[users[r].driver_fk_id].status = "accepting"
    /\ \A d \in DriverPks :
        (drivers[d].status /= "accepting" /\ drivers'[d].status = "accepting") =>
            \E r \in Requests :
                /\ StatusOf(r) = "matched"
                /\ users[r].driver_fk_id = d
                /\ users'[r].request_status = "completed"

(* C7: request and driver change together.  A step that makes a request
   'matched' puts its driver 'in a drive' and a step that puts a driver
   'in a drive' makes a pending request 'matched' with that driver; a step
   that makes a request 'completed' releases its driver and a step that
   releases a driver completes the matched request that references it. *)
C7_PairedAtomically == [][C7_MatchPaired /\ C7_CompletionPaired]_vars

(* Both pairs of transitions have happened: one ride is over with its driver
   released, the other is open with its driver on the ride. *)
C7_Witness ==
    \E r1, r2 \in Requests :
        /\ StatusOf(r1) = "completed" /\ StatusOf(r2) = "matched"
        /\ users[r1].driver_fk_id /= users[r2].driver_fk_id
        /\ drivers[users[r1].driver_fk_id].status = "accepting"
        /\ drivers[users[r2].driver_fk_id].status = "in a drive"

(* The parts of C9. *)
C9_RollbackStep(w) ==
    (mw[w].pc = "scan" /\ mw'[w].pc = "poll") =>
        /\ users' = users
        /\ drivers' = drivers
        /\ users'[mw[w].request_id].request_status = "pending"
        /\ users'[mw[w].request_id].driver_fk_id = NULL
        /\ users'[mw[w].request_id].match_time = NULL
        /\ \A r \in RequestIds : ulock'[r] /= w
        /\ \A d \in DriverPks : dlock'[d] /= w
        /\ ulock'[mw[w].request_id] = Free
        /\ mw'[w] = MatcherIdle

(* C9: the iteration that claims a request and gets no driver (the worker goes
   from the end of its driver scan back to polling) leaves both tables as they
   were, the request 'pending' without driver and match time, holds no lock
   afterwards, and the request can be claimed again at once: the worker keeps
   no count of attempts. *)
C9_NoDriverLeavesPending == [][\A w \in Matchers : C9_RollbackStep(w)]_vars

(* The scan of a worker has ended with no fetched row while another worker
   holds a driver lock: it is about to roll back. *)
C9_Witness ==
    \E w \in Matchers :
        /\ mw[w].pc = "scan" /\ mw[w].todo = {}
        /\ mw[w].available_drivers = <<>>
        /\ StatusOf(mw[w].request_id) = "pending"
        /\ \E d \in DriverPks : dlock[d] \notin {Free, w}

---------------------------------------------------------------------------
(* The parts of C3. *)
C3_Matched == {r \in Requests : StatusOf(r) = "matched"}

C3_Outcome ==
    /\ Cardinality(C3_Matched) <= 1
    /\ (\A w \in Matchers : mw[w].pc = "poll") =>
          /\ Cardinality(C3_Matched) = 1
          /\ \A r \in Requests \ C3_Matched :
                /\ StatusOf(r) = "pending"
                /\ users[r].driver_fk_id = NULL
                /\ users[r].match_time = NULL

C3_LoserFoundNone ==
    \A w \in Matchers :
        (mw[w].pc = "scan" /\ mw'[w].pc = "poll") =>
            /\ mw[w].available_drivers = <<>>
            /\ users' = users /\ drivers' = drivers

(* C3: of two concurrent attempts on two pending requests with one accepting
   driver, exactly one commits.  While they run at most one request is
   matched; the attempt that rolls back has fetched no driver; when both have
   ended one request is 'matched' and the other is 'pending' with no driver
   reference and no match time.  Checked under SpecDuel. *)
C3_ExactlyOneWins == []C3_Outcome /\ [][C3_LoserFoundNone]_vars

(* Both attempts have ended: one request matched, one still pending. *)
C3_Witness ==
    /\ \A w \in Matchers : mw[w].pc = "poll"
    /\ \E r1, r2 \in Requests : StatusOf(r1) = "matched" /\ StatusOf(r2) = "pending"

(* The starting state of the duel, as a state of Spec. *)
C3_DuelStart ==
    /\ Len(users) = 2
    /\ \A r \in Requests : StatusOf(r) = "pending"
    /\ Cardinality({d \in DriverPks : drivers[d].status = "accepting"}) = 1
    /\ mw[1].pc = "find" /\ mw[2].pc = "find"
    /\ mw[1].request_id /= mw[2].request_id

---------------------------------------------------------------------------
(* The parts of C8. *)
C8_Rows == {mw.available_drivers[i] : i \in DOMAIN mw.available_drivers}
C8_Distance(row) == Abs(Coordinate(mw.user_source_location) - Coordinate(row.current_location))

(* C8: for a request source in the zone set and a non-empty list of fetched
   drivers whose locations are all in the zone set, find_best_driver returns
   one of the fetched drivers, and none of them is nearer to the source.
   Checked under SpecBest. *)
C8_NearestDriver ==
    (/\ mw.pc = "return"
     /\ C8_Rows /= {}
     /\ IsZone(mw.user_source_location)
     /\ \A row \in C8_Rows : IsZone(row.current_location))
    => \E best \in C8_Rows :
          /\ mw.result.driver_pk_id = best.id
          /\ mw.result.driver_id = best.driver_id
          /\ mw.result.min_distance = C8_Distance(best)
          /\ \A row \in C8_Rows : C8_Distance(best) <= C8_Distance(row)

(* Source value 50 and drivers at 10, 20, 50: the driver at 50 is returned. *)
C8_Witness ==
    /\ mw.pc = "return"
    /\ mw.user_source_location = AirportTerminal
    /\ Len(mw.available_drivers) = 3
    /\ mw.available_drivers[1].current_location = DowntownCore
    /\ mw.available_drivers[2].current_location = CentralStation
    /\ mw.available_drivers[3].current_location = AirportTerminal
    /\ mw.result.driver_pk_id = 3
    /\ mw.result.min_distance = 0

---------------------------------------------------------------------------
(* The parts of C10. *)
C10_ServiceDuration(r) ==
    Abs(Coordinate(users[r].source_location) - Coordinate(users[r].destination_location))
        + MIN_DURATION

C10_ClaimedLongEnough(r) ==
    \E w \in Completers :
        /\ cw[w].request_id = r
        /\ cw[w].txn_start /= NULL
        /\ now >= cw[w].txn_start + C10_ServiceDuration(r)

C10_Step ==
    /\ \A r \in Requests :
        (StatusOf(r) = "matched" /\ users'[r].request_status = "completed")
            => C10_ClaimedLongEnough(r)
    /\ \A d \in DriverPks :
        (drivers[d].status = "in a drive" /\ drivers'[d].status = "accepting")
            => \E r \in Requests : users[r].driver_fk_id = d /\ StatusOf(r) = "matched"
                                   /\ C10_ClaimedLongEnough(r)

(* C10: a request becomes 'completed', and a driver returns to 'accepting',
   only in a step of the completion worker that claimed the request, taken at
   least |coordinate difference| + MIN_DURATION seconds after the claim.
   Checked under SpecRide. *)
C10_RideTakesItsTime == [][C10_Step]_vars

(* A ride between zones 10 apart is completed, 12 seconds or more after its
   match. *)
C10_Witness ==
    \E r \in Requests :
        /\ StatusOf(r) = "completed"
        /\ users[r].source_location /= users[r].destination_location
        /\ now >= users[r].match_time + 12

(* C11: for all zones A and B of the zone set, calculate_ride_duration(A, A)
   is MIN_DURATION and calculate_ride_duration(A, B) equals
   calculate_ride_duration(B, A). *)
C11_MinimalAndSymmetric ==
    (cw.pc = "return" /\ IsZone(cw.source) /\ IsZone(cw.destination)) =>
        /\ (Replace(cw.source) = Replace(cw.destination) => cw.duration = MIN_DURATION)
        /\ cw.duration = cw.duration_back

(* Both calls have returned for the two zones farthest apart. *)
C11_Witness ==
    /\ cw.pc = "return"
    /\ cw.source = DowntownCore /\ cw.destination = AirportTerminal
    /\ cw.duration = 42 /\ cw.duration_back = 42

(* The parts of C12. *)
C12_ErrorStep(w) ==
    (mw[w].pc \notin {"poll", "closed"} /\ mw'[w].pc = "closed") =>
        /\ users'[mw[w].request_id].request_status = "pending"
        /\ users'[mw[w].request_id].driver_fk_id = NULL
        /\ \A d \in DriverPks : drivers'[d].status = drivers[d].status
        /\ \A d \in ClaimedDrivers(w) : drivers'[d].status = "accepting"
        /\ \A d \in DriverPks : dlock'[d] /= w
        /\ \A r \in RequestIds : ulock'[r] /= w

(* C12: a store error at any point inside a matching iteration (after the
   request is claimed, after drivers are claimed, between or after the two
   UPDATEs) rolls the transaction back: the request is still 'pending' with no
   driver reference, every driver has the status it had before the iteration,
   and the iteration's row locks are gone. *)
C12_MatchErrorRollsBack == [][\A w \in Matchers : C12_ErrorStep(w)]_vars

(* An iteration failed after its driver UPDATE: its request is pending and
   the driver it had chosen is accepting. *)
C12_Witness ==
    \E w \in Matchers :
        /\ mw[w].pc = "closed"
        /\ mw[w].driver_pk_id /= NULL
        /\ StatusOf(mw[w].request_id) = "pending"
        /\ users[mw[w].request_id].driver_fk_id = NULL
        /\ drivers[mw[w].driver_pk_id].status = "accepting"

(* The parts of C13. *)
C13_ErrorStep(w) ==
    (cw[w].pc \notin {"poll", "closed"} /\ cw'[w].pc = "closed") =>
        /\ users'[cw[w].request_id].request_status = "matched"
        /\ users'[cw[w].request_id].completion_time = NULL
        /\ drivers'[cw[w].driver_pk_id].status = "in a drive"

C13_LaterIteration(w) ==
    (cw[w].pc \notin {"poll", "closed"} /\ cw'[w].pc = "closed") =>
        cw'[FirstCompleter].pc /= "closed"

(* C13: a store error inside a completion iteration (during the wait, or
   between or after the two UPDATEs) rolls the transaction back: the request
   is still 'matched' with a null completion_time and its driver still
   'in a drive'; and a completion worker is left running whose later
   iteration claims the request again. *)
C13_CompletionErrorRetries ==
    [][\A w \in Completers : C13_ErrorStep(w) /\ C13_LaterIteration(w)]_vars

(* C14: an error raised in one iteration never terminates a worker: after any
   exception inside the polling loop of process_matching_queue or
   simulate_ride_completion the worker is polling again, so no worker is ever
   outside its loop with its connection closed. *)
C14_WorkersNeverTerminate ==
    /\ \A w \in Matchers : mw[w].pc /= "closed"
    /\ \A w \in Completers : cw[w].pc /= "closed"

(* The parts of C15. *)
C15_Known == {row \in C8_Rows : IsZone(row.current_location)}

C15_NeverSelected ==
    mw.result.driver_pk_id /= NULL =>
        \E row \in C15_Known : row.id = mw.result.driver_pk_id

C15_StillMatched ==
    (IsZone(mw.user_source_location) /\ C15_Known /= {}) =>
        /\ Truthy(mw.result.driver_id)
        /\ \E best \in C15_Known :
              /\ mw.result.driver_pk_id = best.id
              /\ mw.result.driver_id = best.driver_id
              /\ \A row \in C15_Known : C8_Distance(best) <= C8_Distance(row)

(* C15: a fetched driver whose current_location is not a known zone is never
   the driver find_best_driver returns, and its presence does not abort the
   attempt: when the request source is a known zone and at least one fetched
   driver has a known location, the result is a driver (so the iteration takes
   the match branch), and it is the nearest of the known-location drivers. *)
C15_UnknownLocationSkipped ==
    mw.pc = "return" => (C15_NeverSelected /\ C15_StillMatched)

(* A driver at an unknown location was fetched first, and the match went to
   a known-location driver fetched after it. *)
C15_Witness ==
    /\ mw.pc = "return"
    /\ Len(mw.available_drivers) >= 2
    /\ ~IsZone(mw.available_drivers[1].current_location)
    /\ IsZone(mw.available_drivers[2].current_location)
    /\ mw.result.driver_pk_id = 2

(* The parts of C16. *)
C16_Step ==
    \A r \in Requests :
        /\ users'[r].request_status /= StatusOf(r) =>
              \/ StatusOf(r) = "pending" /\ users'[r].request_status = "matched"
              \/ StatusOf(r) = "matched" /\ users'[r].request_status = "completed"
        /\ StatusOf(r) = "completed" => users'[r] = users[r]

(* C16: under the workers a request's status only moves forward: every change
   of status is pending -> matched or matched -> completed, never matched ->
   pending nor completed -> anything, and a completed request's row is never
   modified again. *)
C16_StatusMovesForward == [][C16_Step]_vars

(* One request is completed, time has passed since, and a completion worker
   is about to commit another ride. *)
C16_Witness ==
    \E r \in Requests : \E w \in Completers :
        /\ StatusOf(r) = "completed"
        /\ now > users[r].completion_time
        /\ cw[w].pc = "commit"
        /\ cw[w].request_id /= r

(* The parts of C17. *)
C17_PendingMatched ==
    \A r \in RequestIds :
        (r <= Len(users) /\ users[r].request_status = "pending")
            ~> (r <= Len(users) /\ users[r].request_status = "matched")

C17_MatchedCompleted ==
    \A r \in RequestIds :
        (r <= Len(users) /\ users[r].request_status = "matched")
            ~> (r <= Len(users) /\ users[r].request_status = "completed")

C17_DriverReturns ==
    \A d \in DriverPks :
        (drivers[d].status = "in a drive") ~> (drivers[d].status = "accepting")

(* C17: with one matching worker and one completion worker running fairly, no
   store error, every location a zone and at least one driver 'accepting',
   every pending request is eventually matched, every matched request is
   eventually completed and every driver 'in a drive' eventually returns to
   'accepting'. *)
C17_ClosedLoopLive ==
    /\ C17_PendingMatched
    /\ C17_MatchedCompleted
    /\ C17_DriverReturns

(* Two rides of the same driver are completed and the driver is accepting
   again: the second request waited for the first ride to end. *)
C17_Witness ==
    \E r1, r2 \in Requests :
        /\ r1 /= r2
        /\ StatusOf(r1) = "completed" /\ StatusOf(r2) = "completed"
        /\ users[r1].driver_fk_id = users[r2].driver_fk_id
        /\ drivers[users[r1].driver_fk_id].status = "accepting"

(* The parts of C18: the rows the next UPDATE of a worker targets.  An UPDATE
   waits when another transaction holds the lock of its row; a SELECT ... FOR
   UPDATE SKIP LOCKED never waits. *)
C18_MatcherDriverTarget(w) ==
    IF mw[w].pc = "scan" /\ mw[w].todo = {} /\ Truthy(BestOf(w).driver_id)
    THEN {BestOf(w).driver_pk_id} ELSE {}

C18_MatcherRequestTarget(w) ==
    IF mw[w].pc = "update_request" THEN {mw[w].request_id} ELSE {}

C18_CompleterRequestTarget(w) ==
    IF cw[w].pc = "ride" THEN {cw[w].request_id} ELSE {}

C18_CompleterDriverTarget(w) ==
    IF cw[w].pc = "update_driver" THEN {cw[w].driver_pk_id} ELSE {}

C18_HoldsTargets ==
    /\ \A w \in Matchers :
          /\ \A d \in C18_MatcherDriverTarget(w) : dlock[d] = w
          /\ \A r \in C18_MatcherRequestTarget(w) : ulock[r] = w
    /\ \A w \in Completers :
          /\ \A r \in C18_CompleterRequestTarget(w) : ulock[r] = w
          /\ \A d \in C18_CompleterDriverTarget(w) : dlock[d] = w

C18_CanStep ==
    /\ \A w \in Matchers :
          mw[w].pc /= "poll" =>
              ENABLED (\/ M_SelectDrivers(w)
                       \/ \E d \in DriverPks : M_LockDriver(w, d)
                       \/ M_UpdateDriver(w)
                       \/ M_UpdateRequest(w)
                       \/ M_Commit(w)
                       \/ M_NoDriver(w))
    /\ \A w \in Completers :
          (cw[w].pc /= "poll" /\ now >= cw[w].wake) =>
              ENABLED (C_UpdateRequest(w) \/ C_UpdateDriver(w) \/ C_Commit(w))

(* C18: workers never block each other: in every reachable state the row each
   worker's next UPDATE targets is locked by that worker itself (the claims
   skip locked rows), so no worker waits for a row lock of another worker, and
   every worker inside an iteration can take its next step: no deadlock. *)
C18_NeverBlocked == C18_HoldsTargets /\ C18_CanStep

(* One matching attempt holds the only lockable driver and is about to update
   its request; the other has skipped that driver and fetched none. *)
C18_Witness ==
    \E w1, w2 \in Matchers :
        /\ w1 /= w2
        /\ mw[w1].pc = "update_request"
        /\ mw[w2].pc = "scan" /\ mw[w2].todo = {}
        /\ mw[w2].available_drivers = <<>>
        /\ \A d \in DriverPks : drivers[d].status = "accepting" => dlock[d] = w1

(* The parts of C19. *)
C19_MatcherStops(w) ==
    (mw[w].pc \notin {"new", "closed"} /\ mw'[w].pc = "closed") =>
        /\ users' = users /\ drivers' = drivers
        /\ \A d \in DriverPks : dlock'[d] /= w
        /\ \A r \in RequestIds : ulock'[r] /= w
        /\ mw[w].pc /= "poll" =>
              /\ users'[mw[w].request_id].request_status = "pending"
              /\ ulock'[mw[w].request_id] = Free

C19_CompleterStops(w) ==
    (cw[w].pc \notin {"new", "closed"} /\ cw'[w].pc = "closed") =>
        /\ users' = users /\ drivers' = drivers
        /\ \A d \in DriverPks : dlock'[d] /= w
        /\ \A r \in RequestIds : ulock'[r] /= w
        /\ cw[w].pc /= "poll" =>
              /\ users'[cw[w].request_id].request_status = "matched"
              /\ ulock'[cw[w].request_id] = Free
              /\ dlock'[users'[cw[w].request_id].driver_fk_id] = Free

C19_Restarts ==
    /\ \A w \in Matchers :
          (mw[w].pc = "new" /\ mw'[w].pc /= "new") =>
              (mw'[w] = MatcherIdle /\ users' = users /\ drivers' = drivers)
    /\ \A w \in Completers :
          (cw[w].pc = "new" /\ cw'[w].pc /= "new") =>
              (cw'[w] = CompleterIdle /\ users' = users /\ drivers' = drivers)

C19_StoppedHoldNothing ==
    /\ \A w \in Matchers :
          mw[w].pc \in {"new", "closed"} =>
              /\ \A d \in DriverPks : dlock[d] /= w
              /\ \A r \in RequestIds : ulock[r] /= w
    /\ \A w \in Completers :
          cw[w].pc \in {"new", "closed"} =>
              /\ \A d \in DriverPks : dlock[d] /= w
              /\ \A r \in RequestIds : ulock[r] /= w

(* C19: when a matching or completion worker is stopped at any point of an
   iteration (the ride wait included), none of its changes is in the store and
   none of its locks remains, so the request it held is claimable again in its
   former status; a stopped worker holds no lock; matched implies driver
   'in a drive' and no double-booking hold throughout; a started worker begins
   with fresh locals and changes no row by starting; and statuses move only
   forward, as they do without a stop. *)
C19_CrashRestartSafe ==
    /\ [](C19_StoppedHoldNothing /\ C4_MatchedHasDriver /\ C1_NoDoubleBooking)
    /\ [][/\ \A w \in Matchers : C19_MatcherStops(w)
          /\ \A w \in Completers : C19_CompleterStops(w)
          /\ C19_Restarts
          /\ C16_Step]_vars

(* A completion worker was stopped after it had claimed a ride; a worker
   started after it has completed that ride and the driver is accepting. *)
C19_Witness ==
    \E w \in Completers :
        /\ cw[w].pc = "closed"
        /\ cw[w].request_id /= NULL
        /\ StatusOf(cw[w].request_id) = "completed"
        /\ drivers[cw[w].driver_pk_id].status = "accepting"
        /\ \E m \in Matchers : mw[m].pc = "closed" /\ mw[m].driver_pk_id /= NULL

(* The row locks a worker holds. *)
C20_DriverLocks(w) == {d \in DriverPks : dlock[d] = w}
C20_RequestLocks(w) == {r \in RequestIds : ulock[r] = w}

C20_CompleterScope ==
    \A w \in Completers :
        IF cw[w].pc = "poll"
        THEN C20_RequestLocks(w) = {} /\ C20_DriverLocks(w) = {}
        ELSE /\ C20_RequestLocks(w) = {cw[w].request_id}
             /\ C20_DriverLocks(w) = {cw[w].driver_pk_id}
             /\ users[cw[w].request_id].driver_fk_id = cw[w].driver_pk_id

(* C20: lock scope equals the rows a worker mutates: once a matching
   iteration has fetched its drivers it holds row locks only on the request it
   transitions and the driver it assigns, and a completion iteration only on
   the request it completes and that request's driver; no other row is locked
   by the iteration. *)
C20_LockScopeIsMutatedRows ==
    /\ \A w \in Matchers :
          (InFlight(w) /\ mw[w].pc /= "find" /\ mw[w].todo = {}) =>
              /\ C20_RequestLocks(w) \subseteq {mw[w].request_id}
              /\ C20_DriverLocks(w) \subseteq {BestOf(w).driver_pk_id}
    /\ C20_CompleterScope

(* C20 as amended: during a matching iteration the worker holds row locks on
   the request it claimed and on every available driver it fetched (each
   'accepting' and not locked by another transaction when fetched), among
   which is the driver it assigns, if any; during a completion iteration only
   on the request it completes and that request's driver; outside an
   iteration a worker holds no row lock. *)
C20_LockScopeIsClaimedRows ==
    /\ \A w \in Matchers :
          /\ C20_RequestLocks(w) = (IF InFlight(w) THEN {mw[w].request_id} ELSE {})
          /\ C20_DriverLocks(w) = ClaimedDrivers(w)
          /\ \A d \in ClaimedDrivers(w) : drivers[d].status = "accepting"
          /\ (InFlight(w) /\ BestOf(w).driver_pk_id /= NULL) =>
                BestOf(w).driver_pk_id \in ClaimedDrivers(w)
    /\ C20_CompleterScope

(* A matching iteration is about to commit its match while it holds the locks
   of two drivers, one of which it does not assign. *)
C20_Witness ==
    \E w \in Matchers :
        /\ mw[w].pc = "commit"
        /\ Cardinality(C20_DriverLocks(w)) >= 2
        /\ \E d \in C20_DriverLocks(w) : d /= mw[w].driver_pk_id

(* The parts of C21. *)
C21_ClaimInOrder ==
    \A w \in Matchers :
        (mw[w].pc = "poll" /\ mw'[w].pc = "find") =>
            \A q \in Requests :
                StatusOf(q) = "pending" =>
                    users[mw'[w].request_id].request_time <= users[q].request_time

C21_MatchInOrder ==
    \A r \in Requests :
        (StatusOf(r) = "pending" /\ users'[r].request_status = "matched") =>
            \A q \in Requests :
                users'[q].request_status = "pending" =>
                    users[r].request_time <= users[q].request_time

(* C21: with a single matching worker pending requests are claimed in
   creation order: in every step in which the worker claims a request no
   pending request has an earlier request_time, and in every step in which a
   request becomes 'matched' no request still pending is older. *)
C21_SingleMatcherFifo == [][C21_ClaimInOrder /\ C21_MatchInOrder]_vars

(* The worker holds the older of two requests, both created before its claim;
   the newer one is pending. *)
C21_Witness ==
    \E r, q \in Requests :
        /\ mw[FirstMatcher].pc = "find" /\ mw[FirstMatcher].request_id = r
        /\ StatusOf(q) = "pending"
        /\ users[r].request_time < users[q].request_time
        /\ users[q].request_time < mw[FirstMatcher].txn_start

(* The parts of C22. *)
C22_SkipsOnlyLocked ==
    \A w \in Matchers :
        (mw[w].pc = "poll" /\ mw'[w].pc = "find") =>
            \A q \in Requests :
                (/\ StatusOf(q) = "pending"
                 /\ users[q].request_time < users[mw'[w].request_id].request_time)
                    => ulock[q] \in Matchers \ {w}

(* C22: with two or more matching workers FIFO is best-effort: a newer
   request can be matched while an older one is still pending (the witness),
   and a worker claims a request while an older one is pending only when the
   older one is locked by another matching worker at that claim. *)
C22_BestEffortFifo == [][C22_SkipsOnlyLocked]_vars

(* A newer request is matched while an older request is still pending. *)
C22_Witness ==
    \E r, q \in Requests :
        /\ StatusOf(r) = "matched"
        /\ StatusOf(q) = "pending"
        /\ users[q].request_time < users[r].request_time

(* The parts of C23. *)
C23_OneRidePerDriver ==
    \A d \in DriverPks :
        Cardinality({r \in Requests :
                        StatusOf(r) = "matched" /\ users[r].driver_fk_id = d}) <= 1

C23_OnTripUntilCompletion ==
    \A d \in DriverPks :
        (drivers[d].status = "in a drive" /\ drivers'[d].status /= "in a drive") =>
            \E r \in Requests :
                /\ StatusOf(r) = "matched" /\ users'[r].request_status = "completed"
                /\ users[r].driver_fk_id = d

(* C23: a driver 'in a drive' leaves that status only by the completion of
   its ride: register_driver applied to an existing driver that is
   'in a drive' does not make the driver available, and under every
   interleaving of register_driver with the workers a driver has at most one
   matched request. *)
C23_RegistrationKeepsBooking ==
    /\ []C23_OneRidePerDriver
    /\ [][C23_OnTripUntilCompletion]_vars

(* The parts of C24. *)
C24_ClaimInOrder ==
    \A w \in Completers :
        (cw[w].pc = "poll" /\ cw'[w].pc = "ride") =>
            \A q \in Requests :
                StatusOf(q) = "matched" =>
                    users[cw'[w].request_id].match_time <= users[q].match_time

C24_OneAtATime ==
    Cardinality({w \in Completers : cw[w].pc /= "poll"}) <= 1

(* C24: with a single completion worker matched requests are completed in
   match order: in every step in which the worker claims a ride no matched
   request has an earlier match_time, and at most one ride is being completed
   at a time. *)
C24_SingleCompleterFifo ==
    /\ []C24_OneAtATime
    /\ [][C24_ClaimInOrder]_vars

(* The worker holds the earlier matched of two rides; the later matched one
   waits as 'matched'. *)
C24_Witness ==
    \E r, q \in Requests :
        /\ cw[FirstCompleter].pc = "ride" /\ cw[FirstCompleter].request_id = r
        /\ StatusOf(q) = "matched"
        /\ users[r].match_time < users[q].match_time
        /\ users[q].match_time < cw[FirstCompleter].txn_start

(* The parts of C25. *)
C25_Riding(w) == cw[w].pc /= "poll"

C25_ClaimHeld ==
    \A w \in Completers :
        C25_Riding(w) =>
            /\ ulock[cw[w].request_id] = w
            /\ dlock[cw[w].driver_pk_id] = w
            /\ StatusOf(cw[w].request_id) = "matched"
            /\ \A v \in Completers \ {w} :
                  C25_Riding(v) =>
                      /\ cw[v].request_id /= cw[w].request_id
                      /\ cw[v].driver_pk_id /= cw[w].driver_pk_id

C25_CompletedOnce ==
    \A r \in Requests :
        /\ (StatusOf(r) = "matched" /\ users'[r].request_status = "completed") =>
              /\ Cardinality({w \in Completers : C25_Riding(w) /\ cw[w].request_id = r}) = 1
              /\ drivers[users[r].driver_fk_id].status = "in a drive"
              /\ drivers'[users[r].driver_fk_id].status = "accepting"
        /\ StatusOf(r) = "completed" => users'[r].request_status = "completed"

C25_ReleasedOnce ==
    \A d \in DriverPks :
        (drivers[d].status = "in a drive" /\ drivers'[d].status = "accepting") =>
            Cardinality({r \in Requests :
                            /\ users[r].driver_fk_id = d
                            /\ StatusOf(r) = "matched"
                            /\ users'[r].request_status = "completed"}) = 1

(* C25: with two or more completion workers the claim on a matched request
   and its driver is held from the claim through the ride wait to the commit,
   so no two workers process the same ride: a request goes matched ->
   completed in a step of the one worker that holds it, never again after,
   and each release of a driver is the completion of exactly one ride. *)
C25_RideProcessedOnce ==
    /\ []C25_ClaimHeld
    /\ [][C25_CompletedOnce /\ C25_ReleasedOnce]_vars

(* Two completion workers are waiting out two different rides. *)
C25_Witness ==
    \E w1, w2 \in Completers :
        /\ w1 /= w2
        /\ cw[w1].pc = "ride" /\ cw[w2].pc = "ride"
        /\ now < cw[w1].wake /\ now < cw[w2].wake

(* The parts of C26: the scores of the fetched rows, by position. *)
C26_Score(i) ==
    calculate_proximity_score(mw.user_source_location,
                              mw.available_drivers[i].current_location)

C26_Positions == DOMAIN mw.available_drivers

(* Strictly nearer, float('inf') being farther than every distance. *)
C26_Nearer(a, b) == a /= Inf /\ (b = Inf \/ a < b)

(* C26: when several fetched drivers are at the same minimum distance from
   the request source, find_best_driver returns the first of them in fetch
   order: every row fetched before the returned one is strictly farther, and
   no row fetched after it is nearer. *)
C26_FirstFetchedWinsTie ==
    (mw.pc = "return" /\ mw.result.driver_pk_id /= NULL) =>
        \E i \in C26_Positions :
            /\ mw.available_drivers[i].id = mw.result.driver_pk_id
            /\ mw.result.min_distance = C26_Score(i)
            /\ \A j \in C26_Positions :
                  /\ j < i => C26_Nearer(C26_Score(i), C26_Score(j))
                  /\ j > i => ~C26_Nearer(C26_Score(j), C26_Score(i))

(* Three drivers at the request's own zone were fetched and the first is
   returned. *)
C26_Witness ==
    /\ mw.pc = "return"
    /\ Len(mw.available_drivers) = 3
    /\ \A i \in C26_Positions : C26_Score(i) = 0
    /\ mw.result.driver_pk_id = mw.available_drivers[1].id

(* The parts of C27. *)
C27_SameMapping ==
    /\ DOMAIN Location_ridecompletion = DOMAIN Location
    /\ \A key \in DOMAIN Location : Location_ridecompletion[key] = Location[key]

(* C27: for every pair of zones (a, b) calculate_ride_duration(a, b) is
   calculate_proximity_score(a, b) + 2, MIN_DURATION being 2; the two workers
   map the zones to the same coordinates; and the duration is never less than
   MIN_DURATION. *)
C27_DurationIsDistancePlusMin ==
    /\ C27_SameMapping
    /\ MIN_DURATION = 2
    /\ (cw.pc = "return" /\ IsZone(cw.source) /\ IsZone(cw.destination)) =>
          /\ cw.duration = calculate_proximity_score(cw.source, cw.destination) + 2
          /\ cw.duration_back = calculate_proximity_score(cw.destination, cw.source) + 2
    /\ cw.pc = "return" => (cw.duration >= MIN_DURATION /\ cw.duration_back >= MIN_DURATION)

(* The call has returned for two different zones, one of them spelt with an
   underscore. *)
C27_Witness ==
    /\ cw.pc = "return"
    /\ cw.source = Replace(DowntownCore) /\ cw.destination = TheSuburbs
    /\ cw.duration = 32

(* C28: the matching worker's back-off after a failed match (no driver
   available) is strictly shorter than its idle back-off after finding no
   pending request. *)
C28_RetryShorterThanIdle ==
    \A w \in Matchers :
        (mw[w].idle_slept > 0 /\ mw[w].retry_slept > 0) =>
            mw[w].retry_slept < mw[w].idle_slept

(* The parts of C29. *)
C29_ClaimedAreAccepting ==
    \A w \in Matchers : \A d \in DriverPks :
        (dlock[d] = w \/ d \in ClaimedDrivers(w) \/ (InFlight(w) /\ mw[w].driver_pk_id = d))
            => drivers[d].status = "accepting"

C29_AssignedWasAccepting ==
    \A r \in Requests :
        (StatusOf(r) = "pending" /\ users'[r].request_status = "matched") =>
            drivers[users'[r].driver_fk_id].status = "accepting"

C29_OthersKeepStatus ==
    \A d \in DriverPks :
        /\ drivers[d].status = "off" => drivers'[d].status = "off"
        /\ drivers[d].status = "in a drive" =>
              \/ drivers'[d].status = "in a drive"
              \/ \E w \in Completers : cw[w].pc = "commit" /\ cw[w].driver_pk_id = d

(* C29: the matching engine assigns only a driver that is 'accepting' when
   claimed: every driver row a matching iteration has locked, fetched or
   chosen is 'accepting'; a newly matched request references a driver that was
   'accepting' until that commit; a driver that is 'off' keeps its status and
   a driver 'in a drive' keeps it until a completion worker commits its
   ride. *)
C29_OnlyAcceptingAssigned ==
    /\ []C29_ClaimedAreAccepting
    /\ [][C29_AssignedWasAccepting /\ C29_OthersKeepStatus]_vars

(* A matching iteration has passed over a driver that is 'off' and one that is
   'in a drive' is absent from its fetch: it holds no driver and every driver
   is unavailable. *)
C29_Witness ==
    \E w \in Matchers :
        /\ mw[w].pc = "scan" /\ mw[w].todo = {}
        /\ mw[w].available_drivers = <<>>
        /\ \E d \in DriverPks : drivers[d].status = "off" /\ dlock[d] = Free
        /\ \E d \in DriverPks : drivers[d].status = "in a drive"

(* The parts of C30. *)
C30_OnTrip == {d \in DriverPks : drivers[d].status = "in a drive"}

C30_OpenRides(d) ==
    {r \in Requests : StatusOf(r) = "matched" /\ users[r].driver_fk_id = d}

(* C30: starting with no driver 'in a drive' and no matched request, in
   every committed state of the two tables each driver 'in a drive' is
   referenced by exactly one 'matched' request, and there are as many
   drivers 'in a drive' as 'matched' requests. *)
C30_OnTripHasOneOpenRide ==
    /\ \A d \in C30_OnTrip : Cardinality(C30_OpenRides(d)) = 1
    /\ Cardinality(C30_OnTrip) =
           Cardinality({r \in Requests : StatusOf(r) = "matched"})

(* One ride has been completed and its driver released while another driver
   is on a trip with its one open ride. *)
C30_Witness ==
    /\ \E r \in Requests : StatusOf(r) = "completed"
    /\ \E d \in C30_OnTrip : Cardinality(C30_OpenRides(d)) = 1

(* The parts of C31. *)
C31_OtherRowsUnchanged(r, d) ==
    /\ Len(users') = Len(users)
    /\ \A q \in Requests : q /= r => users'[q] = users[q]
    /\ \A e \in DriverPks : e /= d => drivers'[e] = drivers[e]
    /\ drivers'[d].current_location = drivers[d].current_location

C31_MatchFrame ==
    \A r \in Requests :
        (StatusOf(r) = "pending" /\ users'[r].request_status = "matched") =>
            /\ users'[r].source_location = users[r].source_location
            /\ users'[r].destination_location = users[r].destination_location
            /\ users'[r].request_time = users[r].request_time
            /\ users'[r].completion_time = users[r].completion_time
            /\ C31_OtherRowsUnchanged(r, users'[r].driver_fk_id)
            /\ \A w \in Matchers : mw[w].request_id = r =>
                   \A e \in ClaimedDrivers(w) \ {users'[r].driver_fk_id} :
                       drivers[e].status = "accepting" /\ drivers'[e].status = "accepting"

C31_CompletionFrame ==
    \A r \in Requests :
        (StatusOf(r) = "matched" /\ users'[r].request_status = "completed") =>
            /\ users'[r].source_location = users[r].source_location
            /\ users'[r].destination_location = users[r].destination_location
            /\ users'[r].request_time = users[r].request_time
            /\ users'[r].driver_fk_id = users[r].driver_fk_id
            /\ users'[r].match_time = users[r].match_time
            /\ C31_OtherRowsUnchanged(r, users[r].driver_fk_id)

(* C31: frame of a successful iteration.  A committed match changes only the
   claimed request's status, driver_fk_id and match_time and the winning
   driver's status: every other claimed driver stays 'accepting' and every
   other row is unchanged.  A committed completion changes only the request's
   status and completion_time and its driver's status: the driver's
   current_location, the request's driver_fk_id and match_time and all other
   rows are unchanged. *)
C31_CommitFrame == [][C31_MatchFrame /\ C31_CompletionFrame]_vars

(* A ride between two different zones has been completed, its driver is
   'accepting' again and still where it was, away from the destination; and a
   match has been committed while the other driver is still 'accepting'. *)
C31_Witness ==
    /\ \E r \in Requests :
          /\ StatusOf(r) = "completed"
          /\ drivers[users[r].driver_fk_id].status = "accepting"
          /\ drivers[users[r].driver_fk_id].current_location
                 /= users[r].destination_location
    /\ \E r \in Requests : \E e \in DriverPks :
          /\ StatusOf(r) \in {"matched", "completed"}
          /\ e /= users[r].driver_fk_id
          /\ drivers[e].status = "accepting"

(* The parts of C32. *)
C32_GivesUp(w) ==
    /\ mw[w].pc = "scan"
    /\ mw'[w].pc = "poll"
    /\ IsZone(mw[w].source_location)

C32_Usable == {d \in DriverPks : drivers[d].status = "accepting"
                                    /\ IsZone(drivers[d].current_location)}

(* The other matching attempts in flight: each can take one driver. *)
C32_Rivals(w) == {v \in Matchers \ {w} : InFlight(v)}

(* C32: a matching attempt for a request from a known zone ends with 'no
   driver available', leaving the request pending, only when the store holds
   no 'accepting' driver at a known location for it, that is none beyond
   those the other attempts in flight will take: two concurrent attempts on
   two pending requests with two such drivers both commit a match. *)
C32_NoDriverOnlyWhenNoneAccepting ==
    [][\A w \in Matchers :
          C32_GivesUp(w) => Cardinality(C32_Usable) <= Cardinality(C32_Rivals(w))]_vars

(* The parts of C33: request r could be served, and an older pending request
   cannot be (its source is not a zone). *)
C33_BehindUnmatchable(r) ==
    /\ r \in Requests
    /\ StatusOf(r) = "pending"
    /\ IsZone(users[r].source_location)
    /\ \E d \in DriverPks :
          drivers[d].status = "accepting" /\ IsZone(drivers[d].current_location)
    /\ \E q \in Requests :
          /\ StatusOf(q) = "pending"
          /\ users[q].request_time < users[r].request_time
          /\ ~IsZone(users[q].source_location)

(* C33: no head-of-line blocking.  With one matching worker running fairly
   and an 'accepting' driver at a known zone, a pending request from a known
   zone is eventually matched even when an older pending request can never be
   matched because its source is not a zone. *)
C33_NoHeadOfLineBlocking ==
    \A r \in RequestIds :
        C33_BehindUnmatchable(r) ~> (r \in Requests /\ StatusOf(r) /= "pending")

(* C34: the completion_time stored for a completed request is taken after the
   simulated ride: the commit that completes a request stores a
   completion_time no earlier than the moment the completion worker claimed
   the ride plus the ride duration, which is the end of its sleep. *)
C34_CompletionTimeAfterRide ==
    [][\A w \in Completers : \A r \in Requests :
          (cw[w].request_id = r /\ StatusOf(r) = "matched"
               /\ users'[r].request_status = "completed") =>
              users'[r].completion_time >= cw[w].wake]_vars

(* The parts of C35. *)
C35_UnknownPlace(r) ==
    ~IsZone(users[r].source_location) \/ ~IsZone(users[r].destination_location)

C35_FallbackUsed ==
    \A w \in Completers :
        (cw[w].pc \in {"ride", "update_driver", "commit"}
             /\ C35_UnknownPlace(cw[w].request_id)) =>
            /\ cw[w].ride_duration = 10
            /\ cw[w].wake = cw[w].txn_start + 10

C35_StillCompletes ==
    \A w \in Completers :
        (cw[w].pc = "commit" /\ C35_UnknownPlace(cw[w].request_id)
             /\ cw'[w].pc = "poll") =>
            /\ users'[cw[w].request_id].request_status = "completed"
            /\ drivers[cw[w].driver_pk_id].status = "in a drive"
            /\ drivers'[cw[w].driver_pk_id].status = "accepting"
            /\ now >= cw[w].txn_start + 10

(* C35: a matched request whose source or destination is not a zone does not
   stop the completion worker.  calculate_ride_duration returns the fallback
   duration 10 for it, the worker sleeps those 10 seconds, and its iteration
   then commits the request as 'completed' and its driver as 'accepting'. *)
C35_UnknownPlaceStillCompleted ==
    /\ []C35_FallbackUsed
    /\ [][C35_StillCompletes]_vars

(* A ride to a destination outside the zone set has been completed and its
   driver is 'accepting' again. *)
C35_Witness ==
    \E r \in Requests :
        /\ StatusOf(r) = "completed"
        /\ ~IsZone(users[r].destination_location)
        /\ drivers[users[r].driver_fk_id].status = "accepting"

(* The parts of C36. *)
C36_RowsOf(table, driver_id) ==
    {i \in DOMAIN table : table[i].driver_id = driver_id}

C36_DriverIdUnique ==
    \A i, j \in DOMAIN drivers : drivers[i].driver_id = drivers[j].driver_id => i = j

C36_Registered ==
    mw'.calls = mw.calls + 1 =>
        LET driver_data == mw'.driver_data
            before == C36_RowsOf(drivers, driver_data.driver_id)
            after == C36_RowsOf(drivers', driver_data.driver_id)
        IN /\ Cardinality(after) = 1
           /\ after = {mw'.driver_pk_id}
           /\ before /= {} => (after = before /\ Len(drivers') = Len(drivers))
           /\ before = {} => Len(drivers') = Len(drivers) + 1
           /\ \A i \in after :
                 /\ drivers'[i].status = "accepting"
                 /\ drivers'[i].current_location = driver_data.current_location
           /\ \A i \in DOMAIN drivers : i \notin after => drivers'[i] = drivers[i]

(* C36: register_driver stores every registered or re-registered driver with
   status 'accepting' whatever status the payload carries, and a registration
   of an existing driver_id updates that driver's row and adds none, so no two
   rows of the drivers table share a driver_id. *)
C36_UpsertAccepting ==
    /\ []C36_DriverIdUnique
    /\ [][C36_Registered]_vars

(* A driver_id registered before, whose row was 'in a drive' or 'accepting',
   has been registered again with a payload of status 'off': the table still
   has one row, and it is 'accepting'. *)
C36_Witness ==
    /\ mw.calls >= 2
    /\ mw.driver_data.status = "off"
    /\ Len(drivers) = 1
    /\ mw.driver_pk_id = 1
    /\ drivers[1].status = "accepting"

(* The parts of C37: the answer of a call, against the rows it read. *)
C37_Answer(request_id, response) ==
    IF request_id \notin Requests
    THEN response.status_code = 404 /\ response.detail = "Request ID not found."
    ELSE /\ response.status_code = 200
         /\ response.status = StatusOf(request_id)
         /\ (response.driver_info /= <<>>) <=>
                (StatusOf(request_id) = "matched" /\ users[request_id].driver_fk_id /= NULL)

(* C37: get_ride_status answers a request id that is not in the users table
   with HTTP 404 'Request ID not found.', answers an existing id with its
   current status, includes driver_info exactly when the request is 'matched'
   and has a linked driver, and modifies no row. *)
C37_StatusAnswer ==
    [][cw'.calls = cw.calls + 1 =>
          /\ C37_Answer(cw'.request_id, cw'.response)
          /\ users' = users /\ drivers' = drivers]_vars

(* The parts of C38. *)
C38_Booked ==
    LET n == Len(users)
        b == mw'.event_bookings[Len(mw.event_bookings) + 1]
        round == cw.trip_type = "round-trip"
    IN /\ cw.event_id \in DOMAIN mw.events /\ mw.events[cw.event_id].is_active
       /\ Len(users') = n + (IF round THEN 2 ELSE 1)
       /\ \A r \in 1..n : users'[r] = users[r]
       /\ users'[n + 1].request_status = "pending"
       /\ users'[n + 1].source_location = cw.user_source
       /\ users'[n + 1].destination_location = mw.events[cw.event_id].venue_location
       /\ round => /\ users'[n + 2].request_status = "pending"
                   /\ users'[n + 2].source_location = mw.events[cw.event_id].venue_location
                   /\ users'[n + 2].destination_location = cw.user_source
       /\ Len(mw'.event_bookings) = Len(mw.event_bookings) + 1
       /\ \A i \in DOMAIN mw.event_bookings : mw'.event_bookings[i] = mw.event_bookings[i]
       /\ b.event_fk_id = cw.event_id
       /\ b.to_event_ride_fk_id = n + 1
       /\ b.from_event_ride_fk_id = (IF round THEN n + 2 ELSE NULL)

C38_Step ==
    /\ (cw'.pc = "done" /\ cw.pc /= "done" /\ cw'.status_code = 200) => C38_Booked
    /\ ~(cw'.pc = "done" /\ cw.pc /= "done" /\ cw'.status_code = 200) =>
           (users' = users /\ mw'.event_bookings = mw.event_bookings)

C38_RidesOfBookings ==
    {mw.event_bookings[i].to_event_ride_fk_id : i \in DOMAIN mw.event_bookings}
        \cup {mw.event_bookings[i].from_event_ride_fk_id :
                 i \in {j \in DOMAIN mw.event_bookings :
                           mw.event_bookings[j].trip_type = "round-trip"}}

(* C38: book_event_ride is all-or-nothing.  For an active event the call
   commits in one step one pending ride (source -> venue) for a one-way trip,
   or two (source -> venue, venue -> source) for a round trip, together with
   exactly one event_bookings row that references them; when the event is
   missing or inactive or a statement fails, no ride row and no booking row
   is left: every ride in the store belongs to a booking. *)
C38_AllOrNothing ==
    /\ [](C38_RidesOfBookings = Requests)
    /\ [][C38_Step]_vars

(* A round trip was booked, and a later call for it failed after its inserts
   or named an event that is missing or inactive: two rides, one booking. *)
C38_Witness ==
    /\ cw.pc = "done" /\ cw.calls = 2
    /\ cw.status_code \in {404, 500}
    /\ Len(users) = 2
    /\ Len(mw.event_bookings) = 1
    /\ mw.event_bookings[1].from_event_ride_fk_id = 2

(* The parts of C39. *)
C39_QueueIds(queue) == {queue[i].id : i \in DOMAIN queue}

C39_StopsWhenEmpty ==
    /\ (cw.pc = "poll" /\ mw = <<>> /\ cw' /= cw) => cw'.pc = "stopped"
    /\ cw'.pc = "stopped" => mw = <<>> /\ mw' = <<>>
    /\ cw.pc = "stopped" => cw'.pc = "stopped"

C39_RemovedAfterPost ==
    \A id \in C39_QueueIds(mw) \ C39_QueueIds(mw') :
        /\ cw.pc = "delete" /\ cw.queue_id = id
        /\ ~In(<<"No driver available">>, cw.driver_status)
        /\ \E r \in Requests :
              /\ users[r].source_location = cw.source
              /\ users[r].destination_location = cw.destination
        /\ C39_QueueIds(mw') = C39_QueueIds(mw) \ {id}

C39_KeptOnFailure ==
    (cw.pc = "post" /\ cw'.pc = "poll") =>
        /\ mw' = mw
        /\ cw.queue_id \in C39_QueueIds(mw')

(* C39: process_queue stops when request_queue is empty, and only then;
   removes a queue row only after its POST to the request-ride API succeeded
   with an answer that does not report 'No driver available'; and leaves the
   row in the queue when the API call fails or the answer reports that no
   driver is available. *)
C39_QueueProcessing ==
    [][C39_StopsWhenEmpty /\ C39_RemovedAfterPost /\ C39_KeptOnFailure]_vars

(* The processor has stopped on an empty queue after posting two rows, and
   the server holds the two rides. *)
C39_Witness ==
    /\ cw.pc = "stopped"
    /\ mw = <<>>
    /\ Len(users) = 2
    /\ users[1].destination_location /= users[2].destination_location

====
